---- MODULE Spec2Model ----
(***************************************************************************)
(* StandardFhirClient (standard-fhir-client.js) and SimpleFhirClient       *)
(* (simple-fhir-client.js): request construction, query-string formatting, *)
(* lazy initialisation and JWT bearer-token acquisition with endpoint      *)
(* probing.  Strings that the code inspects character by character (param  *)
(* keys and values, URLs) are sequences of one-character strings; strings  *)
(* that are only copied or concatenated are TLA+ strings.                  *)
(* Then the rai6-app: FaceDetectionComponent, FaceDetectionService and     *)
(* VoiceAnalysisService, each with the timers, camera streams and pending  *)
(* promises of its environment.                                            *)
(***************************************************************************)
EXTENDS Integers, Sequences, FiniteSets, TLC

VARIABLES
  config,   \* the constructor's argument
  env,      \* process.env when the constructor ran
  self,     \* the StandardFhirClient object's fields
  task,     \* the calls in flight: where each is, what it sent, what it got
  calls,    \* number of calls started
  granted,  \* the access tokens the token endpoints have answered with
  demo,     \* the demo script that drives the client, if one does: where it is
  component, \* the FaceDetectionComponent, its timers, streams and pending promises
  service,  \* the FaceDetectionService, its timers, streams and pending promises
  voice     \* the VoiceAnalysisService: a final transcript and the result published

fhirVars == <<config, env, self, task, calls, granted, demo>>

appVars == <<component, service, voice>>

vars == <<fhirVars, appVars>>

(* ---------------------------------------------------------------- bounds *)

\* Largest number of entries of a params object passed by a caller.
MaxParams == 2

\* Number of call slots; calls in different slots may be in flight together.
NumTasks == 2

\* Number of calls a behaviour starts.
MaxCalls == 2

\* Number of clicks on the face-detection button in a behaviour.
MaxToggles == 3

\* Number of detection passes that may be awaiting their result together.
MaxPasses == 2

\* Number of calls of the FaceDetectionService's methods in a behaviour.
MaxServiceCalls == 4

\* Largest number of words of a transcript.
MaxWords == 4

(* ------------------------------------------------------------ JS values *)

\* String-typed fields hold a string or one of these two.
NULL == "<null>"
UNDEFINED == "<undefined>"

\* JS truthiness of a string-or-null field.
Truthy(s) == s \notin {NULL, UNDEFINED, ""}

\* a || b
Or(a, b) == IF Truthy(a) THEN a ELSE b

\* Values of a params object: a string (its characters), a number, null, undefined.
Str(chars) == [kind |-> "string", val |-> chars]
Num(n) == [kind |-> "number", val |-> n]
Null == [kind |-> "null"]
Undefined == [kind |-> "undefined"]
Obj(entries) == [kind |-> "object", val |-> entries]

RECURSIVE Text(_)
\* The string a sequence of characters spells.
Text(chars) == IF chars = <<>> THEN "" ELSE Head(chars) \o Text(Tail(chars))

RECURSIVE Flatten(_)
\* Concatenation of a sequence of character sequences.
Flatten(ss) == IF ss = <<>> THEN <<>> ELSE Head(ss) \o Flatten(Tail(ss))

Digit(d) == <<"0", "1", "2", "3", "4", "5", "6", "7", "8", "9">>[d + 1]

RECURSIVE Digits(_)
\* Decimal digits of a natural number (Number.prototype.toString).
Digits(n) == IF n < 10 THEN <<Digit(n)>> ELSE Digits(n \div 10) \o <<Digit(n % 10)>>

\* String(v): the characters a template literal or a string conversion gives.
ToChars(v) ==
  CASE v.kind = "string" -> v.val
    [] v.kind = "number" -> Digits(v.val)
    [] v.kind = "null" -> <<"n", "u", "l", "l">>
    [] v.kind = "undefined" -> <<"u", "n", "d", "e", "f", "i", "n", "e", "d">>

(* -------------------------------------------------------- percent coding *)

DigitChars == {"0", "1", "2", "3", "4", "5", "6", "7", "8", "9"}

AlphaChars ==
  {"a", "b", "c", "d", "e", "f", "g", "h", "i", "j", "k", "l", "m",
   "n", "o", "p", "q", "r", "s", "t", "u", "v", "w", "x", "y", "z",
   "A", "B", "C", "D", "E", "F", "G", "H", "I", "J", "K", "L", "M",
   "N", "O", "P", "Q", "R", "S", "T", "U", "V", "W", "X", "Y", "Z"}

\* %XX of the ASCII characters the model's strings use.
Percent(c) ==
  CASE c = " " -> <<"%", "2", "0">>
    [] c = "!" -> <<"%", "2", "1">>
    [] c = "#" -> <<"%", "2", "3">>
    [] c = "%" -> <<"%", "2", "5">>
    [] c = "&" -> <<"%", "2", "6">>
    [] c = "'" -> <<"%", "2", "7">>
    [] c = "(" -> <<"%", "2", "8">>
    [] c = ")" -> <<"%", "2", "9">>
    [] c = "+" -> <<"%", "2", "B">>
    [] c = "," -> <<"%", "2", "C">>
    [] c = "/" -> <<"%", "2", "F">>
    [] c = ":" -> <<"%", "3", "A">>
    [] c = "=" -> <<"%", "3", "D">>
    [] c = "?" -> <<"%", "3", "F">>
    [] c = "~" -> <<"%", "7", "E">>

\* Characters encodeURIComponent leaves alone.
UriUnreserved == AlphaChars \cup DigitChars \cup {"-", "_", ".", "!", "~", "*", "'", "(", ")"}

RECURSIVE EncodeChars(_)
EncodeChars(chars) ==
  IF chars = <<>> THEN <<>>
  ELSE (IF Head(chars) \in UriUnreserved THEN <<Head(chars)>> ELSE Percent(Head(chars)))
       \o EncodeChars(Tail(chars))

\* A variant of encodeURIComponent that escapes nothing.
encodeURIComponentVerbatim(v) == ToChars(v)

\* encodeURIComponent(v): v converted to a string, then percent-encoded.
encodeURIComponent(v) == EncodeChars(ToChars(v))

\* Characters the application/x-www-form-urlencoded serializer leaves alone.
FormUnreserved == AlphaChars \cup DigitChars \cup {"*", "-", ".", "_"}

RECURSIVE FormEncodeChars(_)
FormEncodeChars(chars) ==
  IF chars = <<>> THEN <<>>
  ELSE (IF Head(chars) \in FormUnreserved THEN <<Head(chars)>>
        ELSE IF Head(chars) = " " THEN <<"+">>
        ELSE Percent(Head(chars)))
       \o FormEncodeChars(Tail(chars))

(* ------------------------------------------------------- params objects *)

\* A params object is the sequence of its <<key, value>> entries in property
\* order; keys are character sequences and are distinct.

\* An array-index key ("0", "1", "12", ...): JS lists these first, ascending.
IsIndexKey(k) ==
  /\ k # <<>>
  /\ \A i \in 1..Len(k) : k[i] \in DigitChars
  /\ (Len(k) > 1 => k[1] # "0")

RECURSIVE IndexValue(_)
IndexValue(k) ==
  IF k = <<>> THEN 0
  ELSE 10 * IndexValue(SubSeq(k, 1, Len(k) - 1))
       + (CHOOSE d \in 0..9 : Digit(d) = k[Len(k)])

RECURSIVE InsertIndexKey(_, _)
\* entries (index keys ascending) with an index-key entry e put in its place.
InsertIndexKey(entries, e) ==
  IF entries = <<>> THEN <<e>>
  ELSE IF IndexValue(e[1]) < IndexValue(Head(entries)[1]) THEN <<e>> \o entries
  ELSE <<Head(entries)>> \o InsertIndexKey(Tail(entries), e)

HasKey(entries, k) == \E i \in 1..Len(entries) : entries[i][1] = k

\* obj[k] = v: an existing key keeps its place; a new index key goes among the
\* index keys in ascending order; any other new key goes last.
SetProperty(entries, k, v) ==
  IF HasKey(entries, k)
  THEN [i \in 1..Len(entries) |-> IF entries[i][1] = k THEN <<k, v>> ELSE entries[i]]
  ELSE IF IsIndexKey(k)
  THEN LET idx == SelectSeq(entries, LAMBDA e : IsIndexKey(e[1]))
           rest == SelectSeq(entries, LAMBDA e : ~IsIndexKey(e[1]))
       IN InsertIndexKey(idx, <<k, v>>) \o rest
  ELSE Append(entries, <<k, v>>)

RECURSIVE ObjectLiteral(_)
\* The object a literal { k1: v1, k2: v2, ... } written in this order creates.
ObjectLiteral(written) ==
  IF written = <<>> THEN <<>>
  ELSE LET last == written[Len(written)]
       IN SetProperty(ObjectLiteral(SubSeq(written, 1, Len(written) - 1)), last[1], last[2])

\* Object.entries(obj)
ObjectEntries(obj) == obj

\* Object.keys(obj).length
ObjectKeysLength(obj) == Len(obj)

\* A variant of WithPatient that spreads last: { patient: patientId, ...additionalParams }
WithPatientSpreadLast(additionalParams, patientId) ==
  IF HasKey(additionalParams, <<"p", "a", "t", "i", "e", "n", "t">>)
  THEN ObjectEntries(additionalParams)
  ELSE SetProperty(ObjectEntries(additionalParams), <<"p", "a", "t", "i", "e", "n", "t">>, patientId)

\* { ...additionalParams, patient: patientId }
WithPatient(additionalParams, patientId) ==
  SetProperty(ObjectEntries(additionalParams), <<"p", "a", "t", "i", "e", "n", "t">>, patientId)

(* ------------------------------------------------------- query strings *)

RECURSIVE JoinWith(_, _)
\* parts.join(sep)
JoinWith(parts, sep) ==
  IF parts = <<>> THEN <<>>
  ELSE IF Len(parts) = 1 THEN parts[1]
  ELSE parts[1] \o <<sep>> \o JoinWith(Tail(parts), sep)

\* A parameter with a default value: only undefined takes the default.
DefaultParams(params) == IF params.kind = "undefined" THEN Obj(<<>>) ELSE params

\* The value test of formatQueryString's loop: value !== undefined && value !== null
IsEmitted(value) == value.kind \notin {"undefined", "null"}

\* One element of queryParts.
QueryPart(entry) ==
  encodeURIComponent(Str(entry[1])) \o <<"=">> \o encodeURIComponent(entry[2])

RECURSIVE QueryParts(_)
\* queryParts after the loop over Object.entries(params).
QueryParts(entries) ==
  IF entries = <<>> THEN <<>>
  ELSE (IF IsEmitted(Head(entries)[2]) THEN <<QueryPart(Head(entries))>> ELSE <<>>)
       \o QueryParts(Tail(entries))

\* A variant of formatQueryString that skips the final length test.
formatQueryStringAlwaysMarked(params) ==
  IF params.kind \in {"undefined", "null"} \/ ObjectKeysLength(params.val) = 0
  THEN <<>>
  ELSE <<"?">> \o JoinWith(QueryParts(ObjectEntries(params.val)), "&")

\* StandardFhirClient.formatQueryString(params)
formatQueryString(params) ==
  IF params.kind \in {"undefined", "null"} \/ ObjectKeysLength(params.val) = 0
  THEN <<>>
  ELSE LET queryParts == QueryParts(ObjectEntries(params.val))
       IN IF Len(queryParts) > 0 THEN <<"?">> \o JoinWith(queryParts, "&") ELSE <<>>

\* queryParams.append(key, value) for each entry, then queryParams.toString()
URLSearchParamsToString(entries) ==
  JoinWith([i \in 1..Len(entries) |->
              FormEncodeChars(entries[i][1]) \o <<"=">> \o FormEncodeChars(ToChars(entries[i][2]))],
           "&")

(* ------------------------------------------------------ request targets *)

Metadata == <<"m", "e", "t", "a", "d", "a", "t", "a">>
Patient == <<"P", "a", "t", "i", "e", "n", "t">>
Observation == <<"O", "b", "s", "e", "r", "v", "a", "t", "i", "o", "n">>
Condition == <<"C", "o", "n", "d", "i", "t", "i", "o", "n">>
MedicationRequest == <<"M", "e", "d", "i", "c", "a", "t", "i", "o", "n", "R", "e", "q", "u", "e", "s", "t">>

\* The argument of this.client.request(...) in each StandardFhirClient method.
getCapabilityStatement == Metadata

searchPatients(params) == Patient \o formatQueryString(DefaultParams(params))

\* A variant of getPatient that asks by search.
getPatientBySearch(id) == Patient \o <<"?", "_", "i", "d", "=">> \o ToChars(id)

getPatient(id) == Patient \o <<"/">> \o ToChars(id)

searchObservations(params) == Observation \o formatQueryString(DefaultParams(params))

getPatientObservations(patientId, additionalParams) ==
  searchObservations(Obj(WithPatient(DefaultParams(additionalParams).val, patientId)))

searchConditions(params) == Condition \o formatQueryString(DefaultParams(params))

getPatientConditions(patientId, additionalParams) ==
  searchConditions(Obj(WithPatient(DefaultParams(additionalParams).val, patientId)))

request(path, params) == path \o formatQueryString(DefaultParams(params))

\* The argument of this.http.get(...) in SimpleFhirClient.request.
SimpleRequest(path, params) ==
  LET p == DefaultParams(params)
  IN IF ObjectKeysLength(p.val) > 0
     THEN path \o <<"?">> \o URLSearchParamsToString(ObjectEntries(p.val))
     ELSE path

SimpleGetCapabilityStatement == SimpleRequest(Metadata, Undefined)

SimpleSearchPatients(params) == SimpleRequest(Patient, DefaultParams(params))

SimpleGetPatient(id) == SimpleRequest(Patient \o <<"/">> \o ToChars(id), Undefined)

SimpleSearchObservations(params) == SimpleRequest(Observation, DefaultParams(params))

SimpleGetPatientObservations(patientId, additionalParams) ==
  SimpleSearchObservations(Obj(WithPatient(DefaultParams(additionalParams).val, patientId)))

SimpleSearchConditions(params) == SimpleRequest(Condition, DefaultParams(params))

SimpleGetPatientConditions(patientId, additionalParams) ==
  SimpleSearchConditions(Obj(WithPatient(DefaultParams(additionalParams).val, patientId)))

SimpleSearchMedications(params) == SimpleRequest(MedicationRequest, DefaultParams(params))

SimpleGetPatientMedications(patientId, additionalParams) ==
  SimpleSearchMedications(Obj(WithPatient(DefaultParams(additionalParams).val, patientId)))

(* ------------------------------------------------- StandardFhirClient *)

DefaultBaseUrl == "https://api.flexpa.com/fhir"

\* A variant of Constructor that starts with a token in place.
ConstructorWithToken(cfg, e) ==
  [baseUrl |-> Or(cfg.baseUrl, Or(e.FHIR_MCP_SERVER_URL, DefaultBaseUrl)),
   clientId |-> Or(cfg.clientId, e.FHIR_CLIENT_ID),
   privateKeyPath |-> Or(cfg.privateKeyPath, e.PRIVATE_KEY_PATH),
   debug |-> cfg.debug,
   accessToken |-> "tok-A",
   client |-> [kind |-> "null"]]

\* The constructor: config first, then the process environment, then the default.
Constructor(cfg, e) ==
  [baseUrl |-> Or(cfg.baseUrl, Or(e.FHIR_MCP_SERVER_URL, DefaultBaseUrl)),
   clientId |-> Or(cfg.clientId, e.FHIR_CLIENT_ID),
   privateKeyPath |-> Or(cfg.privateKeyPath, e.PRIVATE_KEY_PATH),
   debug |-> cfg.debug,
   accessToken |-> NULL,
   client |-> [kind |-> "null"]]

\* A variant of NeedsAuth that asks for clientId alone.
NeedsAuthClientIdOnly(s) == ~Truthy(s.accessToken) /\ Truthy(s.clientId)

\* A variant of NeedsAuth that does not look at the cached token.
NeedsAuthIgnoringToken(s) == Truthy(s.clientId) /\ Truthy(s.privateKeyPath)

\* initialize(): the branch that calls authenticateWithJWT().
NeedsAuth(s) == ~Truthy(s.accessToken) /\ Truthy(s.clientId) /\ Truthy(s.privateKeyPath)

\* A variant of NewClient that never sets customHeaders.
NewClientNoHeaders(s) ==
  [kind |-> "client", serverUrl |-> s.baseUrl, authorization |-> UNDEFINED]

\* A variant of NewClient that sends the token without its scheme.
NewClientBareToken(s) ==
  [kind |-> "client", serverUrl |-> s.baseUrl,
   authorization |-> IF Truthy(s.accessToken) THEN s.accessToken ELSE UNDEFINED]

\* initialize(): FHIR.client(clientOptions), customHeaders set when a token is cached.
NewClient(s) ==
  [kind |-> "client",
   serverUrl |-> s.baseUrl,
   authorization |-> IF Truthy(s.accessToken) THEN "Bearer " \o s.accessToken ELSE UNDEFINED]

\* The public methods class StandardFhirClient defines.
StandardMethods ==
  {"initialize", "getCapabilityStatement", "searchPatients", "getPatient",
   "searchObservations", "getPatientObservations", "searchConditions",
   "getPatientConditions", "request"}

\* Calling a property the object does not have.
NotAFunction(op) == [kind |-> "error", message |-> "client." \o op \o " is not a function"]

\* ensureClient(): whether the cached handle is returned without initialize().
HasClient(s) == s.client.kind # "null"

TokenLifetime == 300

\* A variant of JwtPayload whose exp is an hour after iat.
JwtPayloadOneHour(s, now) ==
  [iss |-> s.clientId,
   sub |-> s.clientId,
   aud |-> s.baseUrl \o "/auth/token",
   jti |-> s.clientId \o "-" \o ToString(now),
   exp |-> now + 3600,
   iat |-> now]

\* authenticateWithJWT(): the claims of the assertion, from one clock reading.
JwtPayload(s, now) ==
  [iss |-> s.clientId,
   sub |-> s.clientId,
   aud |-> s.baseUrl \o "/auth/token",
   jti |-> s.clientId \o "-" \o ToString(now),
   exp |-> now + TokenLifetime,
   iat |-> now]

\* A variant of authEndpoints that tries the first candidate twice.
authEndpointsRepeated == <<"/auth/token", "/auth/token", "/oauth/token", "/token", "/oauth2/token">>

\* A variant of authEndpoints that begins at the candidate tried last.
authEndpointsFromLast == <<"/oauth2/token", "/auth/token", "/oauth/token", "/token">>

\* A variant of authEndpoints with the first two candidates exchanged.
authEndpointsExchanged == <<"/oauth/token", "/auth/token", "/token", "/oauth2/token">>

authEndpoints == <<"/auth/token", "/oauth/token", "/token", "/oauth2/token">>

\* new URL(endpoint, baseUrl).toString() for an endpoint that starts with "/".
Origin(baseUrl) ==
  CASE baseUrl = "https://api.flexpa.com/fhir" -> "https://api.flexpa.com"
    [] baseUrl = "https://hapi.fhir.org/baseR4" -> "https://hapi.fhir.org"

AuthUrl(endpoint, baseUrl) == Origin(baseUrl) \o endpoint

\* A variant of Post that writes to the Patient resource of the FHIR server.
PostToResource(s, i) ==
  [method |-> "POST",
   endpoint |-> authEndpoints[i],
   url |-> s.baseUrl \o "/Patient",
   outcome |-> [kind |-> "pending"]]

\* The POST of the probe loop's i-th iteration, its response outstanding.
Post(s, i) ==
  [method |-> "POST",
   endpoint |-> authEndpoints[i],
   url |-> AuthUrl(authEndpoints[i], s.baseUrl),
   outcome |-> [kind |-> "pending"]]

\* if (response.data && response.data.access_token): tokenResponse is set and the loop breaks.
YieldsToken(outcome) == outcome.kind = "token" /\ Truthy(outcome.access_token)

\* A variant of CacheToken that also takes the token for the client's id.
CacheTokenAsClientId(s, token) == [s EXCEPT !.accessToken = token, !.clientId = token]

\* this.accessToken = tokenResponse.access_token
CacheToken(s, token) == [s EXCEPT !.accessToken = token]

\* catch (error) of one probe: errorMessage = `${error.message} at ${endpoint}`
ProbeErrorMessage(errorMessage, outcome, endpoint) ==
  IF outcome.kind = "error" THEN outcome.message \o " at " \o endpoint ELSE errorMessage

\* throw new Error(`Failed to authenticate: ${errorMessage}`)
AuthenticationError(errorMessage) ==
  [kind |-> "error", message |-> "Failed to authenticate: " \o errorMessage]

\* A variant of Returned that hands back a digest of the body.
ReturnedDigest(response) == [kind |-> "ok", data |-> "entries of " \o response.data]

\* return await this.client.request(...): the body the handle resolves with.
Returned(response) == [kind |-> "ok", data |-> response.data]

\* A variant of Thrown that wraps the error in a new one.
ThrownWrapped(error) == [kind |-> "error", message |-> "Request failed: " \o error.message]

\* catch (error) { this.log(...); throw error; }
Thrown(error) == error

\* SimpleFhirClient.request: return response.data
SimpleReturned(response) == [kind |-> "ok", data |-> response.data]

\* SimpleFhirClient.request: catch (error) { this.log(...); throw error; }
SimpleThrown(error) == error

(* ---------------------------------------------------------- environment *)

\* Readings of Math.floor(Date.now() / 1000).
Clock == {1700000000, 1700000301}

\* access_token values a token endpoint answers with.
Tokens == {"tok-A", "tok-B"}

\* error.message of a failed transport call.
ErrMsgs == {"ECONNREFUSED", "Request failed with status code 404"}

\* What a POST to a token endpoint ends in: a body with access_token, a body
\* without it, or a thrown transport error.
PostOutcomes ==
  {[kind |-> "token", access_token |-> tok] : tok \in Tokens}
  \cup {[kind |-> "empty"]}
  \cup {[kind |-> "error", message |-> m] : m \in ErrMsgs}

\* Response bodies of the server: a whole result, and a first page that links to a next one.
Bundles == {"bundle", "bundle with next link"}

\* What a GET ends in: the server's response data, or a thrown transport error.
GetOutcomes ==
  {[kind |-> "ok", status |-> 200, data |-> d] : d \in Bundles}
  \cup {[kind |-> "error", message |-> m] : m \in ErrMsgs}

\* A variant of KeyReadError that reports an authentication failure instead.
KeyReadErrorAsAuthentication(privateKeyPath) ==
  [kind |-> "error", message |-> "Failed to authenticate: "]

\* fs.readFileSync(this.privateKeyPath, 'utf8') throwing.
KeyReadError(privateKeyPath) ==
  [kind |-> "error", message |-> "ENOENT: no such file or directory, open '" \o privateKeyPath \o "'"]

\* Constructor arguments and process environments.
Configs ==
  [baseUrl : {UNDEFINED, "https://hapi.fhir.org/baseR4"},
   clientId : {UNDEFINED, "app"},
   privateKeyPath : {UNDEFINED, "key.pem"},
   debug : {FALSE}]

Envs ==
  [FHIR_MCP_SERVER_URL : {UNDEFINED},
   FHIR_CLIENT_ID : {UNDEFINED, "env-app"},
   PRIVATE_KEY_PATH : {UNDEFINED, "env.pem"}]

(* --------------------------------------------------------------- inputs *)

PatientKey == <<"p", "a", "t", "i", "e", "n", "t">>

Keys == {<<"a">>, <<"b">>, PatientKey, <<"1">>}

Values == {Str(<<"1">>), Str(<<"2">>), Str(<<"x", "&", "y">>), Num(5), Null, Undefined}

Ids == {Str(<<"p", "1">>), Str(<<"1", "2", "3">>)}

\* The entries a caller writes in an object literal, in the order written.
Written ==
  UNION {{w \in [1..n -> Keys \X Values] : \A i, j \in 1..n : i # j => w[i][1] # w[j][1]}
         : n \in 0..MaxParams}

\* A call: the method, its arguments, and (for the record) the literal the caller
\* wrote for its params argument.
Invocation(op, id, path, params, written) ==
  [op |-> op, id |-> id, path |-> path, params |-> params, written |-> written]

\* A params argument left out.
NoParams == <<Undefined, <<>>>>

\* The params arguments the literals W make, each with its literal.
ParamArgs(W) == {<<Obj(ObjectLiteral(w)), w>> : w \in W}

Paths == {Patient} \cup {Patient \o <<"/">> \o ToChars(id) : id \in Ids}

SearchOps == {"searchPatients", "searchObservations", "searchConditions"}

ByPatientOps == {"getPatientObservations", "getPatientConditions"}

\* The calls of methods ops with these ids, paths and params arguments.
With(ops, ids, paths, args) ==
  {Invocation(op, id, path, a[1], a[2]) : op \in ops, id \in ids, path \in paths, a \in args}

\* Calls of the methods both clients have, with params arguments from literals
\* W: a sequence of sets of calls, one set per shape of call.
CommonInvocations(W) ==
  <<With({"getCapabilityStatement"}, {Undefined}, {<<>>}, {NoParams}),
    With({"getPatient"}, Ids, {<<>>}, {NoParams}),
    With(SearchOps, {Undefined}, {<<>>}, {NoParams}),
    With(SearchOps, {Undefined}, {<<>>}, ParamArgs(W)),
    With(ByPatientOps, Ids, {<<>>}, {NoParams}),
    With(ByPatientOps, Ids, {<<>>}, ParamArgs(W)),
    With({"request"}, {Undefined}, Paths, {NoParams}),
    With({"request"}, {Undefined}, Paths, ParamArgs(W))>>

\* The calls a caller may write against a StandardFhirClient: its own methods,
\* and the medication methods, which only SimpleFhirClient has.
StandardInvocations(W) ==
  <<With({"initialize"}, {Undefined}, {<<>>}, {NoParams})>>
  \o CommonInvocations(W)
  \o <<With({"searchMedications"}, {Undefined}, {<<>>}, {NoParams}),
       With({"getPatientMedications"}, Ids, {<<>>}, {NoParams})>>

SimpleInvocations(W) ==
  CommonInvocations(W)
  \o <<With({"searchMedications"}, {Undefined}, {<<>>}, {NoParams}),
       With({"searchMedications"}, {Undefined}, {<<>>}, ParamArgs(W)),
       With({"getPatientMedications"}, Ids, {<<>>}, {NoParams}),
       With({"getPatientMedications"}, Ids, {<<>>}, ParamArgs(W))>>

\* Every call with a params argument of up to MaxParams entries.
QueryStandardInvocations == StandardInvocations(Written)

QuerySimpleInvocations == SimpleInvocations(Written)

\* Keys and values that hold the characters a query string gives a meaning to.
ReservedKeys == {<<"a">>, <<"a", "&", "b">>, <<"=">>, <<"?", "x">>}

ReservedValues ==
  {Str(<<"1">>), Str(<<"&", "=", "?">>), Str(<<"a", "=", "b", "&", "c">>), Null}

ReservedWritten ==
  UNION {{w \in [1..n -> ReservedKeys \X ReservedValues] :
            \A i, j \in 1..n : i # j => w[i][1] # w[j][1]}
         : n \in 0..MaxParams}

\* Calls that hand such params to formatQueryString.
ReservedInvocations ==
  <<With({"searchPatients", "searchObservations"}, {Undefined}, {<<>>}, ParamArgs(ReservedWritten)),
    With({"request"}, {Undefined}, Paths, ParamArgs(ReservedWritten))>>

\* A literal that has an entry to keep and an entry to drop.
KeepAndDrop == <<<<<<"a">>, Str(<<"1">>)>>, <<<<"b">>, Null>>>>

\* The calls of the protocol specifications: one of each shape.
FewStandardInvocations ==
  {Invocation("initialize", Undefined, <<>>, Undefined, <<>>),
   Invocation("getCapabilityStatement", Undefined, <<>>, Undefined, <<>>),
   Invocation("searchPatients", Undefined, <<>>, Obj(ObjectLiteral(KeepAndDrop)), KeepAndDrop)}
  \cup {Invocation("getPatient", id, <<>>, Undefined, <<>>) : id \in Ids}
  \cup {Invocation("request", Undefined, path, Undefined, <<>>) : path \in Paths}

FewSimpleInvocations ==
  {Invocation("searchPatients", Undefined, <<>>, Obj(ObjectLiteral(KeepAndDrop)), KeepAndDrop)}
  \cup {Invocation("getPatient", id, <<>>, Undefined, <<>>) : id \in Ids}
  \cup {Invocation("request", Undefined, path, Undefined, <<>>) : path \in Paths}

\* The calls and the transport outcomes of the concurrent specification.
ConcInvocations ==
  {Invocation("initialize", Undefined, <<>>, Undefined, <<>>),
   Invocation("getPatient", Str(<<"p", "1">>), <<>>, Undefined, <<>>)}

ConcPostOutcomes ==
  {[kind |-> "token", access_token |-> tok] : tok \in Tokens}
  \cup {[kind |-> "error", message |-> "ECONNREFUSED"]}

ConcGetOutcomes == {[kind |-> "ok", status |-> 200, data |-> "bundle"]}

ConcClock == {1700000000}

(* ---------------------------------------------------------------- calls *)

Tasks == 1..NumTasks

NoRequest == [kind |-> "none"]

IdleTask ==
  [pc |-> "idle", client |-> "none", inv |-> [op |-> "none"], key |-> "unread",
   jwt |-> [kind |-> "none"],
   errorMessage |-> "", probe |-> <<>>, get |-> NoRequest, gets |-> 0,
   response |-> [kind |-> "none"],
   result |-> [kind |-> "none"], before |-> [kind |-> "none"]]

\* The request target each StandardFhirClient method passes to this.client.request.
StandardTarget(inv) ==
  CASE inv.op = "getCapabilityStatement" -> getCapabilityStatement
    [] inv.op = "searchPatients" -> searchPatients(inv.params)
    [] inv.op = "getPatient" -> getPatient(inv.id)
    [] inv.op = "searchObservations" -> searchObservations(inv.params)
    [] inv.op = "getPatientObservations" -> getPatientObservations(inv.id, inv.params)
    [] inv.op = "searchConditions" -> searchConditions(inv.params)
    [] inv.op = "getPatientConditions" -> getPatientConditions(inv.id, inv.params)
    [] inv.op = "request" -> request(inv.path, inv.params)

\* The URL each SimpleFhirClient method passes to this.http.get.
SimpleTarget(inv) ==
  CASE inv.op = "getCapabilityStatement" -> SimpleGetCapabilityStatement
    [] inv.op = "searchPatients" -> SimpleSearchPatients(inv.params)
    [] inv.op = "getPatient" -> SimpleGetPatient(inv.id)
    [] inv.op = "searchObservations" -> SimpleSearchObservations(inv.params)
    [] inv.op = "getPatientObservations" -> SimpleGetPatientObservations(inv.id, inv.params)
    [] inv.op = "searchConditions" -> SimpleSearchConditions(inv.params)
    [] inv.op = "getPatientConditions" -> SimpleGetPatientConditions(inv.id, inv.params)
    [] inv.op = "searchMedications" -> SimpleSearchMedications(inv.params)
    [] inv.op = "getPatientMedications" -> SimpleGetPatientMedications(inv.id, inv.params)
    [] inv.op = "request" -> SimpleRequest(inv.path, inv.params)

\* Where a call goes once this.client is set: initialize() returns the handle,
\* every other method resumes after its await this.ensureClient().
AfterInitialize(tk) ==
  IF tk.inv.op = "initialize"
  THEN [tk EXCEPT !.pc = "done", !.result = [kind |-> "ok", data |-> "client"]]
  ELSE [tk EXCEPT !.pc = "ready"]

\* A method of StandardFhirClient is called and runs to its first await: a
\* method the class does not have is a TypeError; otherwise the
\* cached handle is returned, or initialize() runs; initialize() builds the
\* handle at once, or authenticateWithJWT() reads the key, builds the assertion
\* and sends the first POST.  The call is from one of the sets invocations; clock holds the
\* readings Date.now() may give.
Call(t, invocations, clock, sequential) ==
  /\ task[t].pc = "idle"
  /\ calls < MaxCalls
  /\ sequential => \A u \in Tasks : task[u].pc = "idle"
  /\ calls' = calls + 1
  /\ UNCHANGED <<config, env, granted, demo, appVars>>
  /\ \E i \in DOMAIN invocations : \E inv \in invocations[i] :
       LET tk == [IdleTask EXCEPT !.client = "standard", !.inv = inv, !.before = self]
       IN IF inv.op \notin StandardMethods
          THEN /\ task' = [task EXCEPT ![t] =
                    [tk EXCEPT !.pc = "done", !.result = NotAFunction(inv.op)]]
               /\ UNCHANGED self
          ELSE IF inv.op # "initialize" /\ HasClient(self)
          THEN /\ task' = [task EXCEPT ![t] = [tk EXCEPT !.pc = "ready"]]
               /\ UNCHANGED self
          ELSE IF NeedsAuth(self)
          THEN /\ UNCHANGED self
               /\ \E now \in clock, readable \in BOOLEAN :
                    task' = [task EXCEPT ![t] =
                      IF readable
                      THEN [tk EXCEPT !.pc = "post", !.key = "read", !.jwt = JwtPayload(self, now),
                                      !.probe = <<Post(self, 1)>>]
                      ELSE [tk EXCEPT !.pc = "done", !.key = "unreadable",
                                      !.result = KeyReadError(self.privateKeyPath)]]
          ELSE /\ self' = [self EXCEPT !.client = NewClient(self)]
               /\ task' = [task EXCEPT ![t] = AfterInitialize(tk)]

\* The response to the outstanding POST arrives: a token ends the loop and is
\* cached; otherwise the next endpoint is tried, or the loop is over and
\* authenticateWithJWT throws.
PostResponse(t, outcome) ==
  /\ task[t].pc = "post"
  /\ UNCHANGED <<config, env, calls, demo, appVars>>
  /\ granted' = IF YieldsToken(outcome) THEN granted \cup {outcome.access_token} ELSE granted
  /\ LET tk == task[t]
         i == Len(tk.probe)
         probed == [tk EXCEPT !.probe[i].outcome = outcome,
                              !.errorMessage = ProbeErrorMessage(tk.errorMessage, outcome, authEndpoints[i])]
     IN IF YieldsToken(outcome)
        THEN /\ self' = CacheToken(self, outcome.access_token)
             /\ task' = [task EXCEPT ![t] = [probed EXCEPT !.pc = "authed"]]
        ELSE /\ UNCHANGED self
             /\ task' = [task EXCEPT ![t] =
                  IF i < Len(authEndpoints)
                  THEN [probed EXCEPT !.probe = Append(probed.probe, Post(self, i + 1))]
                  ELSE [probed EXCEPT !.pc = "done",
                                      !.result = AuthenticationError(probed.errorMessage)]]

\* initialize() resumes after await this.authenticateWithJWT() and builds the handle.
ResumeInitialize(t) ==
  /\ task[t].pc = "authed"
  /\ UNCHANGED <<config, env, calls, granted, demo, appVars>>
  /\ self' = [self EXCEPT !.client = NewClient(self)]
  /\ task' = [task EXCEPT ![t] = AfterInitialize(task[t])]

\* The method resumes after await this.ensureClient() and sends its GET through this.client.
IssueGet(t) ==
  /\ task[t].pc = "ready"
  /\ UNCHANGED <<config, env, calls, self, granted, demo, appVars>>
  /\ task' = [task EXCEPT ![t] =
       IF HasClient(self)
       THEN [task[t] EXCEPT !.pc = "get", !.gets = @ + 1,
               !.get = [kind |-> "GET", url |-> StandardTarget(task[t].inv),
                        authorization |-> self.client.authorization]]
       ELSE [task[t] EXCEPT !.pc = "done",
               !.result = [kind |-> "error", message |-> "TypeError"]]]

\* A method of SimpleFhirClient is called: request() builds the URL and sends the GET.
SimpleCall(t, invocations, sequential) ==
  /\ task[t].pc = "idle"
  /\ calls < MaxCalls
  /\ sequential => \A u \in Tasks : task[u].pc = "idle"
  /\ calls' = calls + 1
  /\ UNCHANGED <<config, env, self, granted, demo, appVars>>
  /\ \E i \in DOMAIN invocations : \E inv \in invocations[i] :
       task' = [task EXCEPT ![t] =
         [IdleTask EXCEPT !.client = "simple", !.inv = inv, !.before = self, !.pc = "get", !.gets = 1,
            !.get = [kind |-> "GET", url |-> SimpleTarget(inv), authorization |-> UNDEFINED]]]

\* The response to the outstanding GET arrives: the data is returned, or the
\* transport's error is rethrown.
GetResponse(t, outcome) ==
  /\ task[t].pc = "get"
  /\ UNCHANGED <<config, env, calls, self, granted, demo, appVars>>
  /\ task' = [task EXCEPT ![t] =
       [task[t] EXCEPT !.pc = "done", !.response = outcome,
          !.result = IF outcome.kind = "ok"
                     THEN (IF task[t].client = "standard" THEN Returned(outcome)
                           ELSE SimpleReturned(outcome))
                     ELSE (IF task[t].client = "standard" THEN Thrown(outcome)
                           ELSE SimpleThrown(outcome))]]

\* The caller has the result of the call.
Return(t) ==
  /\ task[t].pc = "done"
  /\ UNCHANGED <<config, env, calls, self, granted, demo, appVars>>
  /\ task' = [task EXCEPT ![t] = IdleTask]

(* --------------------------------------------------------- demo scripts *)

\* No script: the client's caller makes calls of its own choice.
NoDemo == [script |-> "none", pc |-> "off", ran |-> <<>>, failed |-> {}]

\* The client calls of the two runDemo functions, in the order written: that
\* of fhir-demo.js on a SimpleFhirClient and that of public-fhir-demo.js on a
\* StandardFhirClient.
SimpleScript ==
  <<"metadata", "search", "observations", "conditions", "medications", "allergies",
    "immunizations">>

StandardScript ==
  <<"initialize", "metadata", "search", "observations", "conditions", "immunizations",
    "medications">>

Script(script) == IF script = "simple" THEN SimpleScript ELSE StandardScript

Steps(script) == {Script(script)[i] : i \in 1..Len(Script(script))}

Position(script, step) ==
  CHOOSE i \in 1..Len(Script(script)) : Script(script)[i] = step

\* The call written after step, "end" when there is none.
Following(script, step) ==
  IF Position(script, step) < Len(Script(script))
  THEN Script(script)[Position(script, step) + 1]
  ELSE "end"

\* { _count: n }
Count(n) == <<<<<<"_", "c", "o", "u", "n", "t">>, Num(n)>>>>

\* patients.entry[0].resource.id of a bundle that has entries.
DemoPatientId == Str(<<"p", "1">>)

\* `${resource}?patient=${patientId}&_count=5`
PatientQuery(resource) ==
  resource \o <<"?", "p", "a", "t", "i", "e", "n", "t", "=">> \o ToChars(DemoPatientId) \o <<"&", "_", "c", "o", "u", "n", "t", "=", "5">>

\* The call each step of a script makes.
DemoInvocation(step) ==
  CASE step = "initialize" -> Invocation("initialize", Undefined, <<>>, Undefined, <<>>)
    [] step = "metadata" -> Invocation("getCapabilityStatement", Undefined, <<>>, Undefined, <<>>)
    [] step = "search" ->
         Invocation("searchPatients", Undefined, <<>>, Obj(ObjectLiteral(Count(5))), Count(5))
    [] step = "observations" ->
         Invocation("getPatientObservations", DemoPatientId, <<>>,
                    Obj(ObjectLiteral(Count(10))), Count(10))
    [] step = "conditions" ->
         Invocation("getPatientConditions", DemoPatientId, <<>>,
                    Obj(ObjectLiteral(Count(10))), Count(10))
    [] step = "medications" ->
         Invocation("request", Undefined, PatientQuery(MedicationRequest), Undefined, <<>>)
    [] step = "allergies" ->
         Invocation("request", Undefined, PatientQuery(<<"A", "l", "l", "e", "r", "g", "y", "I", "n", "t", "o", "l", "e", "r", "a", "n", "c", "e">>), Undefined, <<>>)
    [] step = "immunizations" ->
         Invocation("request", Undefined, PatientQuery(<<"I", "m", "m", "u", "n", "i", "z", "a", "t", "i", "o", "n">>), Undefined, <<>>)

\* Bodies a server answers a script's GET with: a bundle with entries, a
\* bundle without, and null.
DemoBundles == {"bundle", "empty bundle", "null"}

DemoGetOutcomes ==
  {[kind |-> "ok", status |-> 200, data |-> d] : d \in DemoBundles}
  \cup {[kind |-> "error", message |-> "ECONNREFUSED"]}

\* Whether a step throws inside its try block: the call rejects, or the
\* lines that print the result read a property of null.
StepThrows(result) ==
  \/ result.kind = "error"
  \/ result.kind = "ok" /\ result.data = "null"

\* A variant of AfterFailure with the outer try/catch of runDemo alone.
AfterFailureOuterCatch(script, step) == "end"

\* Where a script goes on when a step throws: to the code after the catch of
\* the innermost try around the step.
AfterFailure(script, step) ==
  CASE step = "initialize" -> "search"
    [] step = "metadata" -> "search"
    [] step = "search" -> "end"
    [] OTHER -> Following(script, step)

\* Where a script goes on when a step does not throw: the patient steps are
\* made only for a search result that has entries.
AfterSuccess(script, step, result) ==
  IF step = "search" /\ result.data = "empty bundle" THEN "end" ELSE Following(script, step)

\* runDemo of public-fhir-demo.js makes its next call on the StandardFhirClient.
StandardDemoCall ==
  /\ demo.script = "standard"
  /\ demo.pc \in Steps("standard")
  /\ Call(1, <<{DemoInvocation(demo.pc)}>>, Clock, TRUE)

\* runDemo of fhir-demo.js makes its next call on the SimpleFhirClient.
SimpleDemoCall ==
  /\ demo.script = "simple"
  /\ demo.pc \in Steps("simple")
  /\ SimpleCall(1, <<{DemoInvocation(demo.pc)}>>, TRUE)

\* The awaited call settles: the step prints the result or its catch block
\* prints the error, and the script goes on.
DemoResume ==
  /\ demo.script # "none"
  /\ task[1].pc = "done"
  /\ LET step == demo.pc
         result == task[1].result
     IN demo' = [demo EXCEPT
                   !.ran = Append(@, step),
                   !.failed = IF StepThrows(result) THEN @ \cup {step} ELSE @,
                   !.pc = IF StepThrows(result) THEN AfterFailure(demo.script, step)
                          ELSE AfterSuccess(demo.script, step, result)]
  /\ task' = [task EXCEPT ![1] = IdleTask]
  /\ UNCHANGED <<config, env, self, calls, granted, appVars>>

(* ----------------------------------------------- FaceDetectionComponent *)

\* A timer or a stream is a positive number; 0 stands for null and undefined.
None == 0

ModelsError == "Failed to load face detection models. Please try again later."

CameraError == "Could not access camera. Please ensure you have granted camera permissions."

\* The ids setInterval may return: one per call of startDetection().
TimerIds == 1..(MaxToggles + 1)

\* Who called startVideo(): ngAfterViewInit or toggleDetection.
Origins == {"ngAfterViewInit", "toggleDetection"}

\* The component after construction, with its environment: the position of
\* ngAfterViewInit (view), the getUserMedia requests pending per caller of
\* startVideo (cameras), the intervals scheduled (timers) of those made, the
\* streams whose tracks are live of those opened, the detection passes that
\* await detectAllFaces, the strokeRect calls so far modulo 2, and the clicks.
FaceDetectionComponent ==
  [modelsLoaded |-> FALSE, detectionInterval |-> None, isDetecting |-> FALSE,
   detectionResult |-> NULL, error |-> NULL, srcObject |-> None,
   view |-> "created", cameras |-> [o \in Origins |-> 0],
   timers |-> {}, made |-> 0, live |-> {}, opened |-> 0,
   passes |-> 0, strokes |-> 0, toggles |-> 0]

\* startDetection(): isDetecting is set and an interval is scheduled, its id
\* stored over the previous one.
startDetection(c) ==
  [c EXCEPT !.isDetecting = TRUE,
            !.made = @ + 1,
            !.timers = @ \cup {c.made + 1},
            !.detectionInterval = c.made + 1]

\* stopDetection()
stopDetection(c) ==
  LET cleared == IF c.detectionInterval # None
                 THEN [c EXCEPT !.timers = @ \ {c.detectionInterval}, !.detectionInterval = None]
                 ELSE c
      reset == [cleared EXCEPT !.isDetecting = FALSE, !.detectionResult = NULL]
  IN IF reset.srcObject # None
     THEN [reset EXCEPT !.live = @ \ {reset.srcObject}, !.srcObject = None]
     ELSE reset

\* startVideo() up to its await: a getUserMedia request is pending.
startVideo(c, origin) == [c EXCEPT !.cameras[origin] = @ + 1]

\* startVideo() after its await: the stream becomes the video's source and
\* startDetection() runs, or the catch block sets error.
startVideoResumed(c, origin, allowed) ==
  LET answered == [c EXCEPT !.cameras[origin] = @ - 1]
  IN IF allowed
     THEN startDetection([answered EXCEPT !.opened = @ + 1,
                                          !.live = @ \cup {c.opened + 1},
                                          !.srcObject = c.opened + 1])
     ELSE [answered EXCEPT !.error = CameraError]

\* toggleDetection() up to its await.
toggleDetection(c) ==
  IF c.isDetecting
  THEN stopDetection(c)
  ELSE LET starting == [c EXCEPT !.isDetecting = TRUE, !.error = NULL]
       IN IF starting.srcObject = None THEN startVideo(starting, "toggleDetection")
          ELSE IF starting.detectionInterval = None THEN startDetection(starting)
          ELSE starting

\* Angular calls ngAfterViewInit(): the five model loads are requested.
NgAfterViewInit ==
  /\ component.view = "created"
  /\ component' = [component EXCEPT !.view = "loading"]
  /\ UNCHANGED <<fhirVars, service, voice>>

\* Promise.all of the model loads settles: startVideo() is called, or the
\* catch block sets error.
ModelsResponse(loaded) ==
  /\ component.view = "loading"
  /\ component' =
       IF loaded
       THEN startVideo([component EXCEPT !.view = "shown", !.modelsLoaded = TRUE],
                       "ngAfterViewInit")
       ELSE [component EXCEPT !.view = "shown", !.error = ModelsError]
  /\ UNCHANGED <<fhirVars, service, voice>>

\* A click on the button of the template, which is disabled while error is set.
ToggleDetection ==
  /\ component.view \in {"loading", "shown"}
  /\ component.error = NULL
  /\ component.toggles < MaxToggles
  /\ component' = toggleDetection([component EXCEPT !.toggles = @ + 1])
  /\ UNCHANGED <<fhirVars, service, voice>>

\* A getUserMedia request settles and startVideo() resumes.
CameraResponse(origin, allowed) ==
  /\ component.cameras[origin] > 0
  /\ component' = startVideoResumed(component, origin, allowed)
  /\ UNCHANGED <<fhirVars, service, voice>>

\* An interval fires: the callback returns at once, or starts a detection
\* pass and awaits detectAllFaces.  The video has data only if it has a source.
Tick(timer) ==
  /\ timer \in component.timers
  /\ \E readyState \in (IF component.srcObject # None THEN {0, 4} ELSE {0}) :
       component' =
         IF ~component.modelsLoaded \/ readyState = 0 THEN component
         ELSE [component EXCEPT !.passes = @ + 1]
  /\ component.passes < MaxPasses
  /\ UNCHANGED <<fhirVars, service, voice>>

\* detectAllFaces settles: a face with expressions is stored and its box is
\* drawn, no face or an error stores null.
PassResponse(detections) ==
  /\ component.passes > 0
  /\ component' =
       IF detections = "face"
       THEN [component EXCEPT !.passes = @ - 1, !.detectionResult = "result",
                              !.strokes = (@ + 1) % 2]
       ELSE [component EXCEPT !.passes = @ - 1, !.detectionResult = NULL]
  /\ UNCHANGED <<fhirVars, service, voice>>

\* Angular destroys the component: ngOnDestroy() calls stopDetection(), which
\* leaves no source whose tracks ngOnDestroy() could stop.
NgOnDestroy ==
  /\ component.view \in {"loading", "shown"}
  /\ component' = [stopDetection(component) EXCEPT !.view = "destroyed"]
  /\ UNCHANGED <<fhirVars, service, voice>>

(* ------------------------------------------------- FaceDetectionService *)

NotInitialized == "Face detection not initialized"

\* The models initialize() loads, one await each.
Models ==
  <<"tinyFaceDetector", "faceLandmark68Net", "faceRecognitionNet", "faceExpressionNet",
    "ageGenderNet">>

\* The service after construction, with its environment: the initialize()
\* calls in flight, each with the number of models it has loaded (inits); the
\* startDetection() calls in flight, each awaiting getUserMedia ("camera") or
\* video.play() ("play") (starts); how the calls that are over ended
\* (settled); the getUserMedia requests made; the intervals scheduled of those
\* made; the streams whose tracks are live of those opened; the video
\* element's source; what ran last, a method called or the continuation of
\* one ("resumed"), and the number of calls.
\* The interval's callback reads the video and calls back: it changes no
\* field of the service.
FaceDetectionService ==
  [isModelLoaded |-> FALSE, videoElement |-> NULL, canvasElement |-> NULL,
   stream |-> None, detectionInterval |-> None,
   inits |-> <<>>, starts |-> <<>>, settled |-> <<>>, requests |-> 0,
   timers |-> {}, made |-> 0, live |-> {}, opened |-> 0, srcObject |-> None,
   called |-> "none", calls |-> 0]

\* seq without its i-th element.
Without(seq, i) == SubSeq(seq, 1, i - 1) \o SubSeq(seq, i + 1, Len(seq))

Settle(s, op, outcome) == [s EXCEPT !.settled = Append(@, <<op, outcome>>)]

\* initialize(videoElement, canvasElement) up to its first await.
ServiceInitialize(s) ==
  [s EXCEPT !.videoElement = "video", !.canvasElement = "canvas", !.inits = Append(@, 0)]

\* A variant of ServiceInitializeResumed that sets isModelLoaded after the first model.
ServiceInitializeFlagFirst(s, i, loaded) ==
  IF ~loaded
  THEN Settle([s EXCEPT !.inits = Without(@, i)], "initialize", "load error")
  ELSE IF s.inits[i] + 1 < Len(Models)
  THEN [s EXCEPT !.inits[i] = @ + 1, !.isModelLoaded = TRUE]
  ELSE Settle([s EXCEPT !.inits = Without(@, i), !.isModelLoaded = TRUE], "initialize", "ok")

\* initialize() after one of its awaits: the next model is requested, or all
\* are loaded and isModelLoaded is set, or the catch block rethrows.
ServiceInitializeResumed(s, i, loaded) ==
  IF ~loaded
  THEN Settle([s EXCEPT !.inits = Without(@, i)], "initialize", "load error")
  ELSE IF s.inits[i] + 1 < Len(Models)
  THEN [s EXCEPT !.inits[i] = @ + 1]
  ELSE Settle([s EXCEPT !.inits = Without(@, i), !.isModelLoaded = TRUE], "initialize", "ok")

\* startDetection(callback) up to its first await.
ServiceStartDetection(s) ==
  IF ~s.isModelLoaded \/ s.videoElement = NULL \/ s.canvasElement = NULL
  THEN Settle(s, "startDetection", NotInitialized)
  ELSE [s EXCEPT !.requests = @ + 1, !.starts = Append(@, "camera")]

\* startDetection() after await getUserMedia: the stream is stored and made
\* the video's source and play() is awaited, or the catch block rethrows.
ServiceCameraResumed(s, i, allowed) ==
  IF allowed
  THEN [s EXCEPT !.opened = @ + 1, !.live = @ \cup {s.opened + 1},
                 !.stream = s.opened + 1, !.srcObject = s.opened + 1,
                 !.starts[i] = "play"]
  ELSE Settle([s EXCEPT !.starts = Without(@, i)], "startDetection", "camera error")

\* startDetection() after await play(): the interval is scheduled and its id
\* stored, or the catch block rethrows.
ServicePlayResumed(s, i, playing) ==
  IF playing
  THEN Settle([s EXCEPT !.starts = Without(@, i), !.made = @ + 1,
                        !.timers = @ \cup {s.made + 1},
                        !.detectionInterval = s.made + 1],
              "startDetection", "ok")
  ELSE Settle([s EXCEPT !.starts = Without(@, i)], "startDetection", "play error")

\* stopDetection()
ServiceStopDetection(s) ==
  LET cleared == IF s.detectionInterval # None
                 THEN [s EXCEPT !.timers = @ \ {s.detectionInterval}, !.detectionInterval = None]
                 ELSE s
      halted == IF cleared.stream # None
                THEN [cleared EXCEPT !.live = @ \ {cleared.stream}, !.stream = None]
                ELSE cleared
  IN IF halted.videoElement # NULL THEN [halted EXCEPT !.srcObject = None] ELSE halted

ServiceMethods == {"initialize", "startDetection", "stopDetection"}

\* A caller calls a method of the service.
ServiceCall(method) ==
  /\ service.calls < MaxServiceCalls
  /\ LET s == [service EXCEPT !.called = method, !.calls = @ + 1]
     IN service' = CASE method = "initialize" -> ServiceInitialize(s)
                     [] method = "startDetection" -> ServiceStartDetection(s)
                     [] method = "stopDetection" -> ServiceStopDetection(s)
  /\ UNCHANGED <<fhirVars, component, voice>>

\* A model load of the i-th initialize() in flight settles.
ModelLoadResponse(i, loaded) ==
  /\ i \in DOMAIN service.inits
  /\ service' = [ServiceInitializeResumed(service, i, loaded) EXCEPT !.called = "resumed"]
  /\ UNCHANGED <<fhirVars, component, voice>>

\* The getUserMedia request of the i-th startDetection() in flight settles.
ServiceCameraResponse(i, allowed) ==
  /\ i \in DOMAIN service.starts
  /\ service.starts[i] = "camera"
  /\ service' = [ServiceCameraResumed(service, i, allowed) EXCEPT !.called = "resumed"]
  /\ UNCHANGED <<fhirVars, component, voice>>

\* The play() of the i-th startDetection() in flight settles.
ServicePlayResponse(i, playing) ==
  /\ i \in DOMAIN service.starts
  /\ service.starts[i] = "play"
  /\ service' = [ServicePlayResumed(service, i, playing) EXCEPT !.called = "resumed"]
  /\ UNCHANGED <<fhirVars, component, voice>>

(* ------------------------------------------------- VoiceAnalysisService *)

\* The value resultSubject is constructed with.  Numbers between 0 and 1 are
\* fractions <<numerator, denominator>>.
InitialResult ==
  [text |-> <<>>, mood |-> "neutral", confidence |-> <<0, 1>>,
   emotions |-> [happy |-> <<0, 1>>, sad |-> <<0, 1>>, angry |-> <<0, 1>>,
                 fearful |-> <<0, 1>>, neutral |-> <<1, 1>>]]

\* The keyword lists of analyzeVoice.
Keywords ==
  [happy |-> {"happy", "joy", "excited", "great", "good", "wonderful", "fantastic"},
   sad |-> {"sad", "unhappy", "depressed", "miserable", "terrible", "awful"},
   angry |-> {"angry", "mad", "furious", "annoyed", "irritated"},
   fearful |-> {"scared", "afraid", "fear", "worried", "anxious"}]

\* The keys of the emotions object in the order written.
Emotions == <<"happy", "sad", "angry", "fearful", "neutral">>

\* The pieces of text between runs of whitespace a transcript may have.
Vocabulary ==
  {"happy", "Happy", "happy!", "joy", "great", "good", "sad", "unhappy", "angry", "scared"}

\* A transcript is the sequence of its pieces, which whitespace separates.
Texts == UNION {[1..n -> Vocabulary] : n \in 0..MaxWords}

\* String.prototype.toLowerCase on a piece.
toLowerCase(w) == IF w = "Happy" THEN "happy" ELSE w

\* text.toLowerCase().split(/\s+/)
Words(text) == [i \in DOMAIN text |-> toLowerCase(text[i])]

\* Scores are in tenths.  A variant of detectEmotion that counts occurrences.
detectEmotionPerWord(text, keywords) ==
  LET words == Words(text)
      score == Cardinality({i \in DOMAIN words : words[i] \in keywords})
  IN IF 3 * score < 10 THEN 3 * score ELSE 10

\* detectEmotion(text, keywords): Math.min(1, score * 0.3), in tenths.
detectEmotion(text, keywords) ==
  LET words == Words(text)
      score == Cardinality({k \in keywords : \E i \in DOMAIN words : words[i] = k})
  IN IF 3 * score < 10 THEN 3 * score ELSE 10

\* a > b for fractions with positive denominators.
Greater(a, b) == a[1] * b[2] > b[1] * a[2]

RECURSIVE DominantLast(_, _, _)
\* A variant of Dominant that replaces the maximum also on an equal value.
DominantLast(normalized, i, best) ==
  IF i > Len(Emotions) THEN best
  ELSE DominantLast(normalized, i + 1,
         IF ~Greater(best[2], normalized[Emotions[i]]) THEN <<Emotions[i], normalized[Emotions[i]]>>
         ELSE best)

RECURSIVE Dominant(_, _, _)
\* The loop over Object.entries(normalizedEmotions) from its i-th entry on,
\* best being <<dominantEmotion, maxConfidence>>.
Dominant(normalized, i, best) ==
  IF i > Len(Emotions) THEN best
  ELSE Dominant(normalized, i + 1,
         IF Greater(normalized[Emotions[i]], best[2]) THEN <<Emotions[i], normalized[Emotions[i]]>>
         ELSE best)

\* analyzeVoice(text): the result handed to resultSubject.next.
analyzeVoice(text) ==
  LET emotions == [e \in {"happy", "sad", "angry", "fearful", "neutral"} |->
                     IF e = "neutral" THEN 2 ELSE detectEmotion(text, Keywords[e])]
      sum == emotions.happy + emotions.sad + emotions.angry + emotions.fearful + emotions.neutral
      normalizedEmotions == [e \in DOMAIN emotions |-> <<emotions[e], sum>>]
      dominant == Dominant(normalizedEmotions, 1, <<"neutral", <<0, 1>>>>)
  IN [text |-> text, mood |-> dominant[1], confidence |-> dominant[2],
      emotions |-> normalizedEmotions]

\* The service as constructed, no transcript heard.
VoiceAnalysisService == [text |-> <<>>, heard |-> FALSE, result |-> InitialResult]

\* The recognition hands over a final transcript.
Hear ==
  /\ voice = VoiceAnalysisService
  /\ \E text \in Texts : voice' = [voice EXCEPT !.text = text, !.heard = TRUE]
  /\ UNCHANGED <<fhirVars, component, service>>

\* onresult calls analyzeVoice(transcript), which publishes its result.
AnalyzeVoice ==
  /\ voice.heard
  /\ voice' = [voice EXCEPT !.heard = FALSE, !.result = analyzeVoice(voice.text)]
  /\ UNCHANGED <<fhirVars, component, service>>

\* The app as constructed, nothing called yet.
AppAtRest ==
  /\ component = FaceDetectionComponent
  /\ service = FaceDetectionService
  /\ voice = VoiceAnalysisService

(* ------------------------------------------------------- specifications *)

Init ==
  /\ config \in Configs
  /\ env \in Envs
  /\ self = Constructor(config, env)
  /\ task = [t \in Tasks |-> IdleTask]
  /\ calls = 0
  /\ granted = {}
  /\ demo = NoDemo
  /\ AppAtRest

\* A caller that awaits each call before it makes the next.
Next ==
  \E t \in {1} :
    \/ Call(t, <<FewStandardInvocations>>, Clock, TRUE)
    \/ SimpleCall(t, <<FewSimpleInvocations>>, TRUE)
    \/ \E outcome \in PostOutcomes : PostResponse(t, outcome)
    \/ ResumeInitialize(t)
    \/ IssueGet(t)
    \/ \E outcome \in GetOutcomes : GetResponse(t, outcome)
    \/ Return(t)

Spec == Init /\ [][Next]_vars

\* Calls started at any time on a client given its baseUrl, their steps interleaved.
InitConc ==
  /\ config \in {c \in Configs : Truthy(c.baseUrl)}
  /\ env = [FHIR_MCP_SERVER_URL |-> UNDEFINED, FHIR_CLIENT_ID |-> UNDEFINED,
            PRIVATE_KEY_PATH |-> UNDEFINED]
  /\ self = Constructor(config, env)
  /\ task = [t \in Tasks |-> IdleTask]
  /\ calls = 0
  /\ granted = {}
  /\ demo = NoDemo
  /\ AppAtRest

NextConc ==
  \E t \in Tasks :
    \/ Call(t, <<ConcInvocations>>, ConcClock, FALSE)
    \/ \E outcome \in ConcPostOutcomes : PostResponse(t, outcome)
    \/ ResumeInitialize(t)
    \/ IssueGet(t)
    \/ \E outcome \in ConcGetOutcomes : GetResponse(t, outcome)
    \/ Return(t)

SpecConc == InitConc /\ [][NextConc]_vars

\* One call with a params argument from every literal of up to MaxParams
\* entries, on clients that do not authenticate.
InitQuery ==
  /\ config = [baseUrl |-> "https://hapi.fhir.org/baseR4", clientId |-> UNDEFINED,
               privateKeyPath |-> UNDEFINED, debug |-> FALSE]
  /\ env = [FHIR_MCP_SERVER_URL |-> UNDEFINED, FHIR_CLIENT_ID |-> UNDEFINED,
            PRIVATE_KEY_PATH |-> UNDEFINED]
  /\ self = Constructor(config, env)
  /\ task = [t \in Tasks |-> IdleTask]
  /\ calls = MaxCalls - 1
  /\ granted = {}
  /\ demo = NoDemo
  /\ AppAtRest

NextQuery ==
  \E t \in {1} :
    \/ Call(t, QueryStandardInvocations, Clock, TRUE)
    \/ SimpleCall(t, QuerySimpleInvocations, TRUE)
    \/ IssueGet(t)
    \/ \E outcome \in GetOutcomes : GetResponse(t, outcome)

SpecQuery == InitQuery /\ [][NextQuery]_vars

\* One call of a StandardFhirClient that does not authenticate, with params
\* whose keys and values hold "&", "=" and "?".
NextEncode ==
  \E t \in {1} :
    \/ Call(t, ReservedInvocations, Clock, TRUE)
    \/ IssueGet(t)
    \/ \E outcome \in GetOutcomes : GetResponse(t, outcome)

SpecEncode == InitQuery /\ [][NextEncode]_vars

\* A demo script runs from its first call to its end, on a client made from
\* { baseUrl, debug: true } and the process environment.
InitDemo ==
  /\ config = [baseUrl |-> "https://hapi.fhir.org/baseR4", clientId |-> UNDEFINED,
               privateKeyPath |-> UNDEFINED, debug |-> TRUE]
  /\ env \in Envs
  /\ self = Constructor(config, env)
  /\ task = [t \in Tasks |-> IdleTask]
  /\ calls = MaxCalls - Len(StandardScript)
  /\ granted = {}
  /\ demo \in {[NoDemo EXCEPT !.script = sc, !.pc = Script(sc)[1]] : sc \in {"simple", "standard"}}
  /\ AppAtRest

NextDemo ==
  \/ StandardDemoCall
  \/ SimpleDemoCall
  \/ \E outcome \in ConcPostOutcomes : PostResponse(1, outcome)
  \/ ResumeInitialize(1)
  \/ IssueGet(1)
  \/ \E outcome \in DemoGetOutcomes : GetResponse(1, outcome)
  \/ DemoResume

SpecDemo == InitDemo /\ [][NextDemo]_vars

\* A caller makes one call and, once that call has settled, a second one: the
\* first runs in slot 1, the second in slot 2.
NextRetry ==
  \/ calls = 0 /\ Call(1, <<ConcInvocations>>, ConcClock, FALSE)
  \/ task[1].pc = "done" /\ Call(2, <<ConcInvocations>>, ConcClock, FALSE)
  \/ \E t \in {1, 2} :
       \/ \E outcome \in PostOutcomes : PostResponse(t, outcome)
       \/ ResumeInitialize(t)
       \/ IssueGet(t)
       \/ \E outcome \in ConcGetOutcomes : GetResponse(t, outcome)

SpecRetry == InitConc /\ [][NextRetry]_vars

\* A FHIR client constructed and never called.
FhirAtRest ==
  /\ config = [baseUrl |-> "https://hapi.fhir.org/baseR4", clientId |-> UNDEFINED,
               privateKeyPath |-> UNDEFINED, debug |-> FALSE]
  /\ env = [FHIR_MCP_SERVER_URL |-> UNDEFINED, FHIR_CLIENT_ID |-> UNDEFINED,
            PRIVATE_KEY_PATH |-> UNDEFINED]
  /\ self = Constructor(config, env)
  /\ task = [t \in Tasks |-> IdleTask]
  /\ calls = 0
  /\ granted = {}
  /\ demo = NoDemo

\* The face-detection view: Angular's lifecycle calls, the user's clicks, and
\* the model loads, camera requests, intervals and detection passes settling
\* in any order.
InitComponent == FhirAtRest /\ AppAtRest

NextComponent ==
  \/ NgAfterViewInit
  \/ \E loaded \in BOOLEAN : ModelsResponse(loaded)
  \/ ToggleDetection
  \/ \E origin \in Origins, allowed \in BOOLEAN : CameraResponse(origin, allowed)
  \/ \E timer \in TimerIds : Tick(timer)
  \/ \E detections \in {"face", "no face", "error"} : PassResponse(detections)
  \/ NgOnDestroy

SpecComponent == InitComponent /\ [][NextComponent]_vars

\* The FaceDetectionService: its methods called at any time, and the model
\* loads, camera requests and play() calls settling in any order.
NextService ==
  \/ \E method \in ServiceMethods : ServiceCall(method)
  \/ \E i \in 1..MaxServiceCalls, loaded \in BOOLEAN : ModelLoadResponse(i, loaded)
  \/ \E i \in 1..MaxServiceCalls, allowed \in BOOLEAN : ServiceCameraResponse(i, allowed)
  \/ \E i \in 1..MaxServiceCalls, playing \in BOOLEAN : ServicePlayResponse(i, playing)

SpecService == InitComponent /\ [][NextService]_vars

\* The VoiceAnalysisService hears one final transcript and analyses it.
NextVoice ==
  \/ Hear
  \/ AnalyzeVoice

SpecVoice == InitComponent /\ [][NextVoice]_vars

(* ------------------------------------------------- reading a sent URL *)

\* Index of the first c in chars, 0 when there is none.
IndexOf(chars, c) ==
  IF \E i \in 1..Len(chars) : chars[i] = c
  THEN CHOOSE i \in 1..Len(chars) : chars[i] = c /\ \A j \in 1..(i - 1) : chars[j] # c
  ELSE 0

HasQuery(url) == IndexOf(url, "?") # 0

PathOf(url) == IF HasQuery(url) THEN SubSeq(url, 1, IndexOf(url, "?") - 1) ELSE url

QueryOf(url) == IF HasQuery(url) THEN SubSeq(url, IndexOf(url, "?") + 1, Len(url)) ELSE <<>>

RECURSIVE Split(_, _)
\* The pieces of chars between occurrences of sep.
Split(chars, sep) ==
  IF IndexOf(chars, sep) = 0 THEN <<chars>>
  ELSE <<SubSeq(chars, 1, IndexOf(chars, sep) - 1)>>
       \o Split(SubSeq(chars, IndexOf(chars, sep) + 1, Len(chars)), sep)

PercentChars == {" ", "!", "#", "%", "&", "'", "(", ")", "+", ",", "/", ":", "=", "?", "~"}

RECURSIVE Decode(_)
\* What a server reads from a query component: %XX and + undone.
Decode(chars) ==
  IF chars = <<>> THEN <<>>
  ELSE IF Head(chars) = "%" /\ Len(chars) >= 3
          /\ \E c \in PercentChars : Percent(c) = SubSeq(chars, 1, 3)
  THEN <<CHOOSE c \in PercentChars : Percent(c) = SubSeq(chars, 1, 3)>>
       \o Decode(SubSeq(chars, 4, Len(chars)))
  ELSE IF Head(chars) = "+" THEN <<" ">> \o Decode(Tail(chars))
  ELSE <<Head(chars)>> \o Decode(Tail(chars))

\* The <<name, value>> pairs a server reads from the URL's query, in order.
ParsedQuery(url) ==
  IF QueryOf(url) = <<>> THEN <<>>
  ELSE LET parts == Split(QueryOf(url), "&")
       IN [i \in 1..Len(parts) |->
            IF IndexOf(parts[i], "=") = 0 THEN <<Decode(parts[i]), <<>>>>
            ELSE <<Decode(SubSeq(parts[i], 1, IndexOf(parts[i], "=") - 1)),
                   Decode(SubSeq(parts[i], IndexOf(parts[i], "=") + 1, Len(parts[i])))>>]

\* A GET of call slot t is on record.
SentGet(t) == task[t].get.kind = "GET"

(* ------------------------------------------------------------------ C1 *)

ConfigWithoutCredentials == ~Truthy(config.clientId) /\ ~Truthy(config.privateKeyPath)

EnvWithCredentials == Truthy(env.FHIR_CLIENT_ID) /\ Truthy(env.PRIVATE_KEY_PATH)

\* The call in slot t has sent no POST to a token endpoint, and its GET, if
\* sent, has no Authorization header.
StaysAnonymous(t) ==
  task[t].client = "standard" =>
    /\ task[t].probe = <<>>
    /\ SentGet(t) => task[t].get.authorization = UNDEFINED

\* C1 as claimed: a StandardFhirClient whose config has neither clientId nor
\* privateKeyPath never POSTs to a token endpoint, and none of its GETs has an
\* Authorization header.
C1_ConfigAloneDecides == ConfigWithoutCredentials => \A t \in Tasks : StaysAnonymous(t)

\* C1 as amended: the same, when in addition the environment does not supply
\* both FHIR_CLIENT_ID and PRIVATE_KEY_PATH.
C1_NoCredentialsNoAuth ==
  (ConfigWithoutCredentials /\ ~EnvWithCredentials) => \A t \in Tasks : StaysAnonymous(t)

\* A second call of such a client, with only FHIR_CLIENT_ID in the environment, has sent its GET.
C1_Witness ==
  /\ ConfigWithoutCredentials
  /\ Truthy(env.FHIR_CLIENT_ID) /\ ~Truthy(env.PRIVATE_KEY_PATH)
  /\ calls = 2
  /\ \E t \in Tasks : task[t].client = "standard" /\ SentGet(t)

(* ------------------------------------------------------------------ C2 *)

DocumentedEndpoints == <<"/auth/token", "/oauth/token", "/token", "/oauth2/token">>

NoToken(outcome) == outcome.kind \in {"empty", "error"}

\* C2: the POSTs of one authentication go to /auth/token, /oauth/token, /token,
\* /oauth2/token in this order; each is sent only after every earlier one was
\* answered without a token; none is sent after a token was answered; and an
\* answer without a token is followed by the next endpoint's POST (the fourth
\* excepted).
C2_ProbeOrder ==
  \A t \in Tasks :
    LET probe == task[t].probe
    IN /\ Len(probe) <= Len(DocumentedEndpoints)
       /\ \A i \in 1..Len(probe) :
            /\ probe[i].endpoint = DocumentedEndpoints[i]
            /\ i < Len(probe) => NoToken(probe[i].outcome)
            /\ NoToken(probe[i].outcome) => (i < Len(probe) \/ i = Len(DocumentedEndpoints))
            /\ probe[i].outcome.kind = "pending" => task[t].pc = "post"

\* The fourth endpoint answered with a token after one empty answer and two errors.
C2_Witness ==
  \E t \in Tasks :
    /\ Len(task[t].probe) = 4
    /\ task[t].probe[1].outcome.kind = "empty"
    /\ task[t].probe[2].outcome.kind = "error"
    /\ task[t].probe[3].outcome.kind = "error"
    /\ task[t].probe[4].outcome.kind = "token"

(* ------------------------------------------------------------------ C3 *)

\* The probe loop of the call in slot t has ended with no token.
ProbeFailed(t) ==
  /\ task[t].pc = "done"
  /\ Len(task[t].probe) = Len(authEndpoints)
  /\ \A i \in 1..Len(task[t].probe) : NoToken(task[t].probe[i].outcome)

\* C3 as claimed: when no endpoint yields a token, the error's message carries
\* the last transport error's message and names the last endpoint tried,
\* /oauth2/token.
C3_ErrorNamesLastEndpoint ==
  \A t \in Tasks :
    ProbeFailed(t) =>
      \E i \in 1..Len(task[t].probe) :
        /\ task[t].probe[i].outcome.kind = "error"
        /\ \A j \in (i + 1)..Len(task[t].probe) : task[t].probe[j].outcome.kind # "error"
        /\ task[t].result.kind = "error"
        /\ task[t].result.message =
             "Failed to authenticate: " \o task[t].probe[i].outcome.message \o " at /oauth2/token"

(* ------------------------------------------------------------------ C4 *)

\* A value that is neither undefined nor null.
NonNull(value) == value.kind \in {"string", "number"}

\* C4: the GET of getPatientObservations(patientId, extra), in either client,
\* is on Observation; its query has the patient parameter exactly once, with
\* the value patientId; and it has every other non-null entry of extra.
C4_PatientFilter ==
  \A t \in Tasks :
    (SentGet(t) /\ task[t].inv.op = "getPatientObservations") =>
      LET url == task[t].get.url
          q == ParsedQuery(url)
          extra == task[t].inv.written
      IN /\ PathOf(url) = <<"O", "b", "s", "e", "r", "v", "a", "t", "i", "o", "n">>
         /\ Cardinality({i \in 1..Len(q) : q[i][1] = <<"p", "a", "t", "i", "e", "n", "t">>}) = 1
         /\ \A i \in 1..Len(q) :
              q[i][1] = <<"p", "a", "t", "i", "e", "n", "t">> => q[i][2] = ToChars(task[t].inv.id)
         /\ \A j \in 1..Len(extra) :
              (extra[j][1] # <<"p", "a", "t", "i", "e", "n", "t">> /\ NonNull(extra[j][2])) =>
                \E i \in 1..Len(q) : q[i] = <<extra[j][1], ToChars(extra[j][2])>>

\* getPatientObservations("p1", {patient: "2", a: "x&y"}) of StandardFhirClient has sent its GET.
C4_Witness ==
  \E t \in Tasks :
    /\ SentGet(t)
    /\ task[t].client = "standard"
    /\ task[t].inv.op = "getPatientObservations"
    /\ task[t].inv.id = Str(<<"p", "1">>)
    /\ task[t].inv.written = << <<<<"p", "a", "t", "i", "e", "n", "t">>, Str(<<"2">>)>>,
                                <<<<"a">>, Str(<<"x", "&", "y">>)>> >>

(* ------------------------------------------------------------------ C5 *)

\* The StandardFhirClient methods that hand their params to formatQueryString as given.
DirectOps == {"searchPatients", "searchObservations", "searchConditions", "request"}

\* The path such a method puts before the query string.
BaseOf(inv) ==
  CASE inv.op = "searchPatients" -> <<"P", "a", "t", "i", "e", "n", "t">>
    [] inv.op = "searchObservations" -> <<"O", "b", "s", "e", "r", "v", "a", "t", "i", "o", "n">>
    [] inv.op = "searchConditions" -> <<"C", "o", "n", "d", "i", "t", "i", "o", "n">>
    [] inv.op = "request" -> inv.path

\* The entries of a literal whose value is neither undefined nor null.
Kept(written) == SelectSeq(written, LAMBDA e : NonNull(e[2]))

\* Place of key k in the literal.
PlaceOf(written, k) == CHOOSE i \in 1..Len(written) : written[i][1] = k

\* Object.entries order: array-index keys first, ascending; then the other
\* keys in the order written.
JsBefore(written, k1, k2) ==
  IF IsIndexKey(k1) /\ IsIndexKey(k2) THEN IndexValue(k1) < IndexValue(k2)
  ELSE IF IsIndexKey(k1) # IsIndexKey(k2) THEN IsIndexKey(k1)
  ELSE PlaceOf(written, k1) < PlaceOf(written, k2)

\* The query q has exactly the kept entries of the literal, each once.
SameEntries(q, written) ==
  /\ Len(q) = Len(Kept(written))
  /\ \A j \in 1..Len(Kept(written)) :
       \E i \in 1..Len(q) : q[i] = <<Kept(written)[j][1], ToChars(Kept(written)[j][2])>>

\* The query string formatQueryString made for the call in slot t.
MadeQuery(t) == SubSeq(task[t].get.url, Len(BaseOf(task[t].inv)) + 1, Len(task[t].get.url))

FormattedCall(t) ==
  /\ SentGet(t)
  /\ task[t].client = "standard"
  /\ task[t].inv.op \in DirectOps
  /\ SubSeq(task[t].get.url, 1, Len(BaseOf(task[t].inv))) = BaseOf(task[t].inv)

AB12 == << <<<<"a">>, Str(<<"1">>)>>, <<<<"b">>, Str(<<"2">>)>> >>

\* C5 as claimed: formatQueryString gives "" for an empty mapping, and for a
\* non-empty one "?" followed by its key=value pairs joined by "&" in
\* insertion order; {a:"1", b:"2"} gives ?a=1&b=2.
C5_InsertionOrder ==
  \A t \in Tasks :
    (SentGet(t) /\ task[t].client = "standard" /\ task[t].inv.op \in DirectOps) =>
      LET written == task[t].inv.written
          q == ParsedQuery(<<"?">> \o Tail(MadeQuery(t)))
      IN /\ FormattedCall(t)
         /\ written = <<>> => MadeQuery(t) = <<>>
         /\ written # <<>> =>
              /\ MadeQuery(t) # <<>> /\ Head(MadeQuery(t)) = "?"
              /\ SameEntries(q, written)
              /\ \A i, j \in 1..Len(q) :
                   i < j => PlaceOf(written, q[i][1]) < PlaceOf(written, q[j][1])
         /\ written = AB12 => Text(MadeQuery(t)) = "?a=1&b=2"

\* C5 as amended: formatQueryString gives "" for a mapping with no entry
\* whose value is neither undefined nor null; otherwise "?" followed by the
\* pairs of those entries joined by "&" in Object.entries order, with nothing
\* in it but unreserved characters, %XX, "=" and "&"; {a:"1", b:"2"} gives ?a=1&b=2.
C5_QueryString ==
  \A t \in Tasks :
    (SentGet(t) /\ task[t].client = "standard" /\ task[t].inv.op \in DirectOps) =>
      LET written == task[t].inv.written
          q == ParsedQuery(<<"?">> \o Tail(MadeQuery(t)))
      IN /\ FormattedCall(t)
         /\ Kept(written) = <<>> => MadeQuery(t) = <<>>
         /\ Kept(written) # <<>> =>
              /\ MadeQuery(t) # <<>> /\ Head(MadeQuery(t)) = "?"
              /\ SameEntries(q, written)
              /\ \A i, j \in 1..Len(q) : i < j => JsBefore(written, q[i][1], q[j][1])
              /\ \A i \in 2..Len(MadeQuery(t)) :
                   MadeQuery(t)[i] \in UriUnreserved \cup {"%", "=", "&"}
         /\ written = AB12 => Text(MadeQuery(t)) = "?a=1&b=2"

\* searchPatients({a:"1", b:"2"}) of StandardFhirClient has sent GET Patient?a=1&b=2.
C5_Witness ==
  \E t \in Tasks :
    /\ SentGet(t)
    /\ task[t].client = "standard"
    /\ task[t].inv.op = "searchPatients"
    /\ task[t].inv.written = AB12
    /\ Text(task[t].get.url) = "Patient?a=1&b=2"

(* ------------------------------------------------------------------ C6 *)

ParamOps ==
  DirectOps \cup {"searchMedications", "getPatientObservations", "getPatientConditions",
                  "getPatientMedications"}

\* C6 as claimed: in both clients, a key of the params argument whose value is
\* undefined or null is not in the query of the GET (the patient key of a
\* getPatient... method apart, which the method sets itself); and when a
\* method that passes its params as given gets only such values, the URL has no
\* query string.
C6_NullsDropped ==
  \A t \in Tasks :
    (SentGet(t) /\ task[t].inv.op \in ParamOps) =>
      LET written == task[t].inv.written
          q == ParsedQuery(task[t].get.url)
      IN /\ \A j \in 1..Len(written) :
              (~NonNull(written[j][2])
                 /\ (task[t].inv.op \in DirectOps \cup {"searchMedications"}
                       \/ written[j][1] # <<"p", "a", "t", "i", "e", "n", "t">>)) =>
                \A i \in 1..Len(q) : q[i][1] # written[j][1]
         /\ (task[t].inv.op \in DirectOps \cup {"searchMedications"} /\ Kept(written) = <<>>) =>
              ~HasQuery(task[t].get.url)

(* ------------------------------------------------------------------ C7 *)

PatientPathOf(id) == <<"P", "a", "t", "i", "e", "n", "t", "/">> \o ToChars(id)

\* The call in slot t is getPatient(id), or request("Patient/" + id) with no params.
AsksForPatient(t, id) ==
  \/ task[t].inv.op = "getPatient" /\ task[t].inv.id = id
  \/ /\ task[t].inv.op = "request"
     /\ task[t].inv.path = PatientPathOf(id)
     /\ task[t].inv.params = Undefined

\* The header a StandardFhirClient in its present state sends; SimpleFhirClient sends none.
HeaderNow(t) ==
  IF task[t].client = "standard" /\ Truthy(self.accessToken)
  THEN "Bearer " \o self.accessToken
  ELSE UNDEFINED

\* C7: for every id, getPatient(id) and request("Patient/" + id) send the same
\* request: a GET of Patient/{id} with no query string, through a handle made
\* by the same initialisation (with a token exactly when one was acquired).
C7_SameRequest ==
  \A t \in Tasks : \A id \in Ids :
    AsksForPatient(t, id) =>
      /\ SentGet(t) =>
           /\ task[t].get = [kind |-> "GET", url |-> PatientPathOf(id),
                             authorization |-> HeaderNow(t)]
           /\ ~HasQuery(task[t].get.url)
           /\ task[t].client = "standard" => HasClient(self)
      /\ (task[t].pc = "done" /\ task[t].result.kind = "ok") => SentGet(t)

\* getPatient("123") of a StandardFhirClient that authenticated in this call has sent its GET.
C7_Witness ==
  \E t \in Tasks :
    /\ task[t].client = "standard"
    /\ task[t].inv.op = "getPatient"
    /\ task[t].inv.id = Str(<<"1", "2", "3">>)
    /\ task[t].probe # <<>>
    /\ SentGet(t)
    /\ Text(task[t].get.url) = "Patient/123"

(* ------------------------------------------------------------------ C8 *)

HasAssertion(t) == "iat" \in DOMAIN task[t].jwt

\* C8: in every assertion exp is iat plus 300, iat is a reading of the clock,
\* and jti is clientId, "-" and iat.
C8_AssertionClaims ==
  \A t \in Tasks :
    HasAssertion(t) =>
      /\ task[t].jwt.iat \in Clock
      /\ task[t].jwt.exp = task[t].jwt.iat + 300
      /\ task[t].jwt.jti = self.clientId \o "-" \o ToString(task[t].jwt.iat)

\* An assertion built at 1700000301 is on its way to a token endpoint.
C8_Witness ==
  \E t \in Tasks :
    /\ task[t].pc = "post"
    /\ HasAssertion(t)
    /\ task[t].jwt.iat = 1700000301
    /\ task[t].jwt.exp = 1700000601

(* ------------------------------------------------------------------ C9 *)

\* This step sends a POST to a token endpoint for the call in slot t.
SendsPost(t) == Len(task'[t].probe) > Len(task[t].probe)

\* This step sends the GET of the StandardFhirClient call in slot t.
SendsGet(t) ==
  task[t].get.kind = "none" /\ task'[t].get.kind = "GET" /\ task'[t].client = "standard"

\* C9: when calls are made one after another, from the moment a token is
\* cached it is never changed or dropped, no POST goes to a token endpoint
\* (not even in a second initialize()), and every GET carries it as Bearer.
C9_TokenCached ==
  [][Truthy(self.accessToken) =>
       /\ self'.accessToken = self.accessToken
       /\ \A t \in Tasks :
            /\ ~SendsPost(t)
            /\ SendsGet(t) => task'[t].get.authorization = "Bearer " \o self.accessToken]_vars

\* A second call, initialize(), has returned the handle without a POST, a token being cached.
C9_Witness ==
  \E t \in Tasks :
    /\ calls = 2
    /\ task[t].inv.op = "initialize"
    /\ task[t].pc = "done"
    /\ task[t].result.kind = "ok"
    /\ task[t].probe = <<>>
    /\ Truthy(self.accessToken)
    /\ self.client.authorization = "Bearer " \o self.accessToken

(* ----------------------------------------------------------------- C10 *)

Configured == Truthy(self.clientId) /\ Truthy(self.privateKeyPath)

Settled == \A t \in Tasks : task[t].pc \in {"idle", "done"}

\* C10: on a client with clientId and privateKeyPath, whatever the
\* interleaving of calls, every GET carries as Bearer a token some token
\* endpoint has answered with, and once every call is over the cached token
\* is one of the tokens answered.
C10_ConcurrentTokens ==
  Configured =>
    /\ \A t \in Tasks :
         SentGet(t) => \E tok \in granted : task[t].get.authorization = "Bearer " \o tok
    /\ (Settled /\ granted # {}) => self.accessToken \in granted

\* Two calls started together have each been given a token, a different one,
\* and both are over, a GET among them.
C10_Witness ==
  \E t, u \in Tasks :
    /\ Configured
    /\ t # u
    /\ task[t].pc = "done" /\ task[u].pc = "done"
    /\ task[t].probe # <<>> /\ task[u].probe # <<>>
    /\ task[t].probe[Len(task[t].probe)].outcome.kind = "token"
    /\ task[u].probe[Len(task[u].probe)].outcome.kind = "token"
    /\ task[t].probe[Len(task[t].probe)].outcome # task[u].probe[Len(task[u].probe)].outcome
    /\ SentGet(t)

(* ----------------------------------------------------------------- C11 *)

\* The URLs of the four candidate token endpoints of this client.
TokenEndpointUrls ==
  {Origin(self.baseUrl) \o e : e \in {"/auth/token", "/oauth/token", "/token", "/oauth2/token"}}

\* C11: the client is read-only: every request a call sends to a resource
\* path is a GET, and the only other requests are POSTs to the candidate
\* token endpoints made while authenticating.
C11_ReadOnly ==
  \A t \in Tasks :
    /\ task[t].get.kind \in {"none", "GET"}
    /\ \A i \in 1..Len(task[t].probe) :
         /\ task[t].probe[i].method = "POST"
         /\ task[t].probe[i].url \in TokenEndpointUrls
    /\ task[t].probe # <<>> => (task[t].client = "standard" /\ HasAssertion(t))

\* A call has authenticated with a POST and then sent its GET.
C11_Witness ==
  \E t \in Tasks :
    /\ task[t].probe # <<>>
    /\ task[t].probe[Len(task[t].probe)].outcome.kind = "token"
    /\ SentGet(t)

(* ----------------------------------------------------------------- C12 *)

\* The GET of the call in slot t has failed in the transport and the call is over.
GetFailed(t) == task[t].pc = "done" /\ task[t].response.kind = "error"

\* This step is the transport failing the GET of the call in slot t.
FailsGet(t) ==
  task[t].pc = "get" /\ task'[t].pc = "done" /\ task'[t].response.kind = "error"

\* C12 as stated: when the transport fails a resource operation, the caller
\* gets that same error and the client's cached state (handle, accessToken,
\* configuration) is what it was before the call.
C12_StateAsBeforeCall ==
  \A t \in Tasks :
    GetFailed(t) => (task[t].result = task[t].response /\ self = task[t].before)

\* C12, amended: when the transport fails a resource operation, the caller
\* gets that same error; the failure itself changes nothing the client
\* caches, and a client that had its handle before the call is as it was
\* before the call.
C12_ErrorPropagates ==
  /\ [](\A t \in Tasks :
          GetFailed(t) =>
            /\ task[t].result = task[t].response
            /\ (task[t].client = "simple" \/ HasClient(task[t].before)) => self = task[t].before)
  /\ [][\A t \in Tasks : FailsGet(t) => self' = self]_vars

\* A call on a client that already had its handle has failed in the transport.
C12_Witness ==
  \E t \in Tasks :
    /\ GetFailed(t)
    /\ task[t].client = "standard"
    /\ HasClient(task[t].before)
    /\ task[t].result.message = "ECONNREFUSED"

(* ----------------------------------------------------------------- C13 *)

\* C13: when the private key file cannot be read, the call that set off the
\* authentication fails with the error of the read, no POST has gone to a
\* token endpoint, no GET is sent, and accessToken stays null.
C13_KeyUnreadable ==
  \A t \in Tasks :
    task[t].key = "unreadable" =>
      /\ task[t].pc = "done"
      /\ task[t].result =
           [kind |-> "error",
            message |-> "ENOENT: no such file or directory, open '" \o self.privateKeyPath \o "'"]
      /\ task[t].probe = <<>>
      /\ task[t].jwt.kind = "none"
      /\ task[t].get.kind = "none"
      /\ self.accessToken = NULL

\* getPatient on a client with credentials has failed on reading key.pem.
C13_Witness ==
  \E t \in Tasks :
    /\ task[t].key = "unreadable"
    /\ task[t].inv.op = "getPatient"
    /\ self.privateKeyPath = "key.pem"
    /\ task[t].pc = "done"

(* ----------------------------------------------------------------- C14 *)

\* No call has been started on the client since it was constructed.
JustConstructed == calls = 0 /\ \A t \in Tasks : task[t] = IdleTask

\* C14: constructing a client reads no key, sends nothing and does not
\* authenticate: a client no call was made on has no token and no handle,
\* and no token endpoint has answered; a token is there only after a call.
C14_LazyConstruction ==
  /\ JustConstructed =>
       /\ self.accessToken = NULL
       /\ ~HasClient(self)
       /\ granted = {}
  /\ \A t \in Tasks : task[t].pc = "idle" => task[t] = IdleTask
  /\ Truthy(self.accessToken) => (calls >= 1 /\ self.accessToken \in granted)

\* The first call on a client constructed with credentials found it without a
\* token and has acquired one.
C14_Witness ==
  \E t \in Tasks :
    /\ calls = 1
    /\ task[t].before = Constructor(config, env)
    /\ task[t].before.accessToken = NULL
    /\ Truthy(self.clientId)
    /\ Truthy(self.accessToken)

(* ----------------------------------------------------------------- C15 *)

\* C15: nothing is retried: a call sends at most one GET, whether it is
\* answered or fails, and one authentication sends at most one POST to each
\* of the four token endpoints.
C15_NoRetry ==
  \A t \in Tasks :
    /\ task[t].gets <= 1
    /\ task[t].gets = 1 <=> SentGet(t)
    /\ task[t].response.kind # "none" => task[t].pc = "done"
    /\ Len(task[t].probe) <= 4
    /\ \A i, j \in 1..Len(task[t].probe) :
         i # j => /\ task[t].probe[i].endpoint # task[t].probe[j].endpoint
                  /\ task[t].probe[i].url # task[t].probe[j].url

\* A call got its token from the fourth endpoint after transport errors at
\* the others, and its GET has failed.
C15_Witness ==
  \E t \in Tasks :
    /\ Len(task[t].probe) = 4
    /\ \A i \in 1..3 : task[t].probe[i].outcome.kind = "error"
    /\ task[t].probe[4].outcome.kind = "token"
    /\ GetFailed(t)

(* ----------------------------------------------------------------- C17 *)

\* The resource path the documentation gives for each operation.
DocumentedPath(inv) ==
  CASE inv.op = "getCapabilityStatement" -> <<"m", "e", "t", "a", "d", "a", "t", "a">>
    [] inv.op = "searchPatients" -> <<"P", "a", "t", "i", "e", "n", "t">>
    [] inv.op = "getPatient" -> PatientPathOf(inv.id)
    [] inv.op \in {"searchObservations", "getPatientObservations"} ->
         <<"O", "b", "s", "e", "r", "v", "a", "t", "i", "o", "n">>
    [] inv.op \in {"searchConditions", "getPatientConditions"} ->
         <<"C", "o", "n", "d", "i", "t", "i", "o", "n">>
    [] inv.op \in {"searchMedications", "getPatientMedications"} ->
         <<"M", "e", "d", "i", "c", "a", "t", "i", "o", "n", "R", "e", "q", "u", "e", "s", "t">>
    [] inv.op = "request" -> inv.path

DocumentedOps ==
  {"getCapabilityStatement", "searchPatients", "getPatient", "searchObservations",
   "getPatientObservations", "searchConditions", "getPatientConditions",
   "searchMedications", "getPatientMedications", "request"}

\* The call in slot t ended because the client has no such method.
NoSuchMethod(t) ==
  /\ task[t].pc = "done"
  /\ task[t].result = [kind |-> "error",
                       message |-> "client." \o task[t].inv.op \o " is not a function"]

\* The GET of a documented operation goes to the operation's documented path.
OnDocumentedPath(t) ==
  (SentGet(t) /\ task[t].inv.op \in DocumentedOps) =>
     PathOf(task[t].get.url) = DocumentedPath(task[t].inv)

\* C17 as claimed: every documented operation exists on the client (both
\* StandardFhirClient and SimpleFhirClient) and sends its GET to its fixed
\* resource path.
C17_FixedPaths ==
  \A t \in Tasks :
    /\ OnDocumentedPath(t)
    /\ task[t].inv.op \in DocumentedOps => ~NoSuchMethod(t)

(* ----------------------------------------------------------------- C18 *)

\* The pieces of a query string between "&", each cut at its "=".
Pieces(qs) ==
  IF qs = <<>> THEN <<>>
  ELSE LET parts == Split(Tail(qs), "&")
       IN [i \in 1..Len(parts) |-> Split(parts[i], "=")]

\* The entries of a mapping that formatQueryString is to emit, as text.
NonNullEntries(entries) ==
  LET kept == SelectSeq(entries, LAMBDA e : NonNull(e[2]))
  IN [i \in 1..Len(kept) |-> <<kept[i][1], ToChars(kept[i][2])>>]

\* C18: formatQueryString encodes each key and each value by itself: cutting
\* its result at "&" and "=" and decoding the pieces gives back the non-null
\* entries of the mapping, one piece per entry and in the mapping's order,
\* also when keys and values hold "&", "=" or "?".
C18_RoundTrip ==
  \A t \in Tasks :
    (FormattedCall(t) /\ task[t].inv.params.kind = "object") =>
      LET pieces == Pieces(MadeQuery(t))
          entries == NonNullEntries(ObjectEntries(task[t].inv.params.val))
      IN /\ MadeQuery(t) # <<>> => Head(MadeQuery(t)) = "?"
         /\ Len(pieces) = Len(entries)
         /\ \A i \in 1..Len(pieces) :
              /\ Len(pieces[i]) = 2
              /\ <<Decode(pieces[i][1]), Decode(pieces[i][2])>> = entries[i]

\* searchPatients({"a&b": "a=b&c", "=": "&=?"}) has sent its GET.
C18_Witness ==
  \E t \in Tasks :
    /\ FormattedCall(t)
    /\ task[t].inv.op = "searchPatients"
    /\ task[t].inv.written = << <<<<"a", "&", "b">>, Str(<<"a", "=", "b", "&", "c">>)>>,
                                <<<<"=">>, Str(<<"&", "=", "?">>)>> >>
    /\ Text(task[t].get.url) = "Patient?a%26b=a%3Db%26c&%3D=%26%3D%3F"

(* ----------------------------------------------------------------- C19 *)

\* C19: a search or get operation gives its caller the body the transport
\* answered its one GET with, as it is, and fetches no further page.
C19_RawResponse ==
  \A t \in Tasks :
    /\ (task[t].pc = "done" /\ task[t].response.kind = "ok") =>
         /\ task[t].result.kind = "ok"
         /\ task[t].result.data = task[t].response.data
         /\ DOMAIN task[t].result = {"kind", "data"}
         /\ task[t].gets = 1
    /\ (task[t].pc = "done" /\ task[t].result.kind = "ok" /\ task[t].inv.op # "initialize") =>
         task[t].response.kind = "ok"

\* searchPatients was answered with a first page that links to a next one, and is over.
C19_Witness ==
  \E t \in Tasks :
    /\ task[t].pc = "done"
    /\ task[t].client = "standard"
    /\ task[t].inv.op = "searchPatients"
    /\ task[t].response.kind = "ok"
    /\ task[t].response.data = "bundle with next link"
    /\ task[t].result.data = "bundle with next link"

(* ----------------------------------------------------------------- C20 *)

\* The configuration fields of a client object.
ConfigurationOf(s) ==
  [baseUrl |-> s.baseUrl, clientId |-> s.clientId,
   privateKeyPath |-> s.privateKeyPath, debug |-> s.debug]

\* C20: the configuration is immutable after construction: whatever calls
\* have run, succeeded or failed, baseUrl, clientId, privateKeyPath and debug
\* are what the constructor set.
C20_ConfigImmutable ==
  /\ ConfigurationOf(self) =
       [baseUrl |-> Or(config.baseUrl, Or(env.FHIR_MCP_SERVER_URL, "https://api.flexpa.com/fhir")),
        clientId |-> Or(config.clientId, env.FHIR_CLIENT_ID),
        privateKeyPath |-> Or(config.privateKeyPath, env.PRIVATE_KEY_PATH),
        debug |-> config.debug]
  /\ \A t \in Tasks :
       task[t].pc # "idle" => ConfigurationOf(task[t].before) = ConfigurationOf(self)

\* A second call on a client that authenticated has failed in the transport.
C20_Witness ==
  \E t \in Tasks :
    /\ calls = 2
    /\ GetFailed(t)
    /\ Truthy(self.accessToken)
    /\ Truthy(task[t].before.accessToken)

(* ----------------------------------------------------------------- C16 *)

PerPatientSteps == {"observations", "conditions", "medications", "allergies", "immunizations"}

\* The steps a finished script has made a call for.
Ran == {demo.ran[i] : i \in 1..Len(demo.ran)}

\* C16: in both demo scripts a failing step does not stop the steps that do
\* not depend on it: the patient search is made also when the metadata step
\* (with the initialisation that shares its try block) failed, and when a per-patient step fails every step written after it
\* is still made.
C16_StepsIsolated ==
  (demo.script # "none" /\ demo.pc = "end") =>
    /\ ({"initialize", "metadata"} \cap demo.failed # {}) => "search" \in Ran
    /\ \A s \in PerPatientSteps \cap demo.failed :
         \A u \in Steps(demo.script) :
           Position(demo.script, u) > Position(demo.script, s) => u \in Ran

\* A script is over whose metadata step and whose observations step failed.
C16_Witness ==
  /\ demo.script # "none"
  /\ demo.pc = "end"
  /\ {"metadata", "observations"} \subseteq demo.failed
  /\ Len(demo.ran) = Len(Script(demo.script))

(* ----------------------------------------------------------------- C21 *)

\* The operations both classes define.
SharedOps ==
  {"getCapabilityStatement", "searchPatients", "getPatient", "searchObservations",
   "getPatientObservations", "searchConditions", "getPatientConditions", "request"}

\* C21 as claimed: for an operation both classes have and the same arguments,
\* the GET of a SimpleFhirClient and the GET of a StandardFhirClient that has
\* no token go to the same path with the same query string: the URL either
\* client sends is the URL the other one builds for that call.
C21_RequestEquivalent ==
  \A t \in Tasks :
    (SentGet(t) /\ task[t].inv.op \in SharedOps) =>
      /\ (task[t].client = "standard" /\ task[t].get.authorization = UNDEFINED) =>
           task[t].get.url = SimpleTarget(task[t].inv)
      /\ task[t].client = "simple" => task[t].get.url = StandardTarget(task[t].inv)

(* ----------------------------------------------------------------- C22 *)

\* A call is inside initialize(): waiting for a token endpoint, or about to
\* resume after authenticateWithJWT().
InitializeInProgress == \E t \in Tasks : task[t].pc \in {"post", "authed"}

\* C22: whenever no initialize() is in progress, a StandardFhirClient that
\* has a handle and a cached token has the handle's Authorization header equal
\* to "Bearer " followed by that token, whatever the interleaving of calls.
C22_HeaderMatchesToken ==
  (~InitializeInProgress /\ HasClient(self) /\ self.accessToken # NULL) =>
    self.client.authorization = "Bearer " \o self.accessToken

\* Two calls started together were each given a token, a different one, both
\* initializations are over and the handle carries the token cached last.
C22_Witness ==
  /\ ~InitializeInProgress
  /\ HasClient(self)
  /\ self.accessToken # NULL
  /\ Cardinality(granted) = 2
  /\ \A t \in Tasks : task[t].probe # <<>> /\ task[t].pc \in {"ready", "get", "done"}

(* ----------------------------------------------------------------- C23 *)

\* The initialize() of the call in slot t has failed: the key could not be
\* read, or no endpoint gave a token.
InitializeFailed(t) ==
  /\ task[t].client = "standard"
  /\ task[t].pc = "done"
  /\ task[t].key = "unreadable" \/ ProbeFailed(t)

\* The call in slot t has run authenticateWithJWT() up to its first POST.
AuthenticatesAnew(t) ==
  \/ task[t].key = "unreadable"
  \/ /\ task[t].key = "read"
     /\ task[t].probe # <<>>
     /\ task[t].probe[1].method = "POST"
     /\ task[t].probe[1].endpoint = "/auth/token"

\* C23: when the initialize() of a call has failed, the call has sent no GET,
\* the client has neither handle nor token, and the call made next runs
\* authenticateWithJWT() again: it reads the key and sends its first POST to
\* /auth/token.
C23_FailedAuthLeavesUninitialized ==
  InitializeFailed(1) =>
    /\ task[1].gets = 0 /\ task[1].get = NoRequest
    /\ task[2].pc = "idle" => (~HasClient(self) /\ self.accessToken = NULL)
    /\ task[2].pc # "idle" =>
         /\ task[2].before.accessToken = NULL
         /\ ~HasClient(task[2].before)
         /\ AuthenticatesAnew(2)

\* The first call failed at the last endpoint, and the second call has its
\* first POST out, to /auth/token.
C23_Witness ==
  /\ InitializeFailed(1)
  /\ ProbeFailed(1)
  /\ task[2].pc = "post"
  /\ Len(task[2].probe) = 1
  /\ task[2].probe[1].endpoint = "/auth/token"

(* ----------------------------------------------------------------- C24 *)

\* C24 as claimed: the FaceDetectionComponent never has more than one
\* detection interval scheduled, and when it is stopped (not detecting, no
\* camera or model request pending) none remains scheduled.
C24_OneTimer ==
  /\ Cardinality(component.timers) <= 1
  /\ (~component.isDetecting /\ component.view # "loading"
        /\ \A o \in Origins : component.cameras[o] = 0) => component.timers = {}

(* ----------------------------------------------------------------- C25 *)

\* No model load and no getUserMedia request of the component is pending.
NothingPending ==
  /\ component.view # "loading"
  /\ \A o \in Origins : component.cameras[o] = 0

\* C25 as claimed: whenever nothing is pending, isDetecting is true exactly
\* when a detection interval is scheduled; so when toggleDetection() asked for
\* the camera and was refused, isDetecting is false and error is set.
C25_DetectingIffScheduled ==
  NothingPending =>
    (component.isDetecting <=> component.timers # {})

(* ----------------------------------------------------------------- C26 *)

\* Detection is stopped: stopDetection() was the last to set isDetecting.
Stopped == ~component.isDetecting /\ component.detectionInterval = None

\* C26 as claimed: while detection is stopped detectionResult is null, and no
\* step taken while it is stopped stores a result or draws a box, a detection
\* pass that completes then included.
C26_QuietAfterStop ==
  /\ [](Stopped => component.detectionResult = NULL)
  /\ [][(Stopped /\ ~component'.isDetecting) =>
          (component'.detectionResult = NULL /\ component'.strokes = component.strokes)]_vars

(* ----------------------------------------------------------------- C27 *)

\* Some initialize() of the service has completed successfully.
InitializedOnce ==
  \E i \in DOMAIN service.settled : service.settled[i] = <<"initialize", "ok">>

\* This step is a call of startDetection().
StartDetectionCalled ==
  service'.calls = service.calls + 1 /\ service'.called = "startDetection"

\* C27: until an initialize() has completed successfully the service is not
\* initialized, a failed initialize() included; and startDetection() called
\* then fails with "Face detection not initialized", requests no camera and
\* schedules no interval.
C27_NotInitialized ==
  /\ [](~InitializedOnce => ~service.isModelLoaded)
  /\ [][(StartDetectionCalled /\ ~InitializedOnce) =>
          /\ service'.settled = Append(service.settled, <<"startDetection", NotInitialized>>)
          /\ service'.requests = service.requests
          /\ service'.starts = service.starts
          /\ service'.timers = service.timers]_vars

\* An initialize() failed at a model load and the startDetection() called
\* after it failed as not initialized, no camera requested.
C27_Witness ==
  /\ service.settled = <<<<"initialize", "load error">>, <<"startDetection", NotInitialized>>>>
  /\ service.requests = 0
  /\ service.timers = {}

(* ----------------------------------------------------------------- C28 *)

\* Every asynchronous call of the service has settled.
ServiceSettled == service.inits = <<>> /\ service.starts = <<>>

\* This step is a call of stopDetection() right after stopDetection() returned.
StoppedAgain ==
  /\ service.called = "stopDetection"
  /\ service'.calls = service.calls + 1
  /\ service'.called = "stopDetection"

\* C28 as claimed: when stopDetection() has just returned and every
\* startDetection() called before it had settled, no stream the service opened has
\* live tracks, no interval is scheduled and the video has no source; and a
\* second stopDetection() changes no field.
C28_StopReleasesAll ==
  /\ []((service.called = "stopDetection" /\ ServiceSettled) =>
          (service.live = {} /\ service.timers = {} /\ service.srcObject = None))
  /\ [][StoppedAgain => service' = [service EXCEPT !.calls = @ + 1]]_vars

(* ----------------------------------------------------------------- C29 *)

\* The result of analyzeVoice for the transcript has been published.
Published == ~voice.heard /\ voice.result # InitialResult

\* The keywords of emotion e that are whole words of the transcript, case aside.
Present(e) ==
  {k \in Keywords[e] : \E i \in DOMAIN voice.text : toLowerCase(voice.text[i]) = k}

\* The score of emotion e before normalisation, in tenths.
ScoreOf(e) ==
  IF e = "neutral" THEN 2
  ELSE IF 3 * Cardinality(Present(e)) < 10 THEN 3 * Cardinality(Present(e)) ELSE 10

KeywordEmotions == {"happy", "sad", "angry", "fearful"}

\* C29: the published mood is the emotion with the largest score, the
\* earliest of happy, sad, angry, fearful, neutral among equals, where a
\* keyword emotion scores min(1, 0.3 x its keywords present as whole words) and
\* neutral 0.2; a transcript with no keyword gives neutral with confidence 1,
\* one with a keyword never gives neutral.
C29_DominantMood ==
  Published =>
    /\ \E i \in 1..Len(Emotions) :
         /\ voice.result.mood = Emotions[i]
         /\ \A j \in 1..Len(Emotions) : ScoreOf(Emotions[j]) <= ScoreOf(Emotions[i])
         /\ \A j \in 1..(i - 1) : ScoreOf(Emotions[j]) < ScoreOf(Emotions[i])
    /\ (\A e \in KeywordEmotions : Present(e) = {}) =>
         /\ voice.result.mood = "neutral"
         /\ voice.result.confidence[1] = voice.result.confidence[2]
    /\ (\E e \in KeywordEmotions : Present(e) # {}) => voice.result.mood # "neutral"

\* A transcript with one happy and one sad keyword, sad first, was found happy.
C29_Witness ==
  /\ Published
  /\ voice.text = <<"unhappy", "Happy">>
  /\ voice.result.mood = "happy"

====
